---- MODULE Spec2Model ----
(***************************************************************************)
(* A model of the Netaheuristics crate: the generic improving-heuristic    *)
(* loop (ImprovingHeuristic::optimize), the termination criteria, the      *)
(* operator selectors, and the three algorithms built on the loop.         *)
(*                                                                         *)
(* Objective values are f32 in the source; every value the model uses is a *)
(* small integer (or a dyadic fraction held in fixed point), on which f32  *)
(* arithmetic and comparison are exact.                                    *)
(***************************************************************************)
EXTENDS Integers, Sequences, FiniteSets, TLC

VARIABLES
    \* termination criteria (termination.rs)
    terminator,     \* the criterion under test / owned by the heuristic
    results,        \* history: the result of every top-level terminate() call
    now,            \* what SystemTime::now() returns, in ticks
    permuted,       \* a composite over the sub-criteria of terminator, listed
                    \* in another order
    results_permuted, \* history: the result of every terminate() call on permuted
    \* SequentialSelector (selectors.rs, lib.rs)
    operators,      \* the operator pool: the radius n of each NeighborsUpUntilN
    operator_index, \* RefCell<usize> cursor
    objective_best, \* RefCell<f32> best objective seen by the selector
    objectives,     \* history: objective of the solution passed to each select()
    selected,       \* history: operator index returned by each select()
    \* AdaptiveSelector (selectors.rs; SelectorAdaptive in lib.rs)
    ctor,           \* the constructor used: default_weights or custom_weights
    weights,        \* Vec<f32>, one weight per option, in units of 1/Scale
    decay,          \* f32 decay, in units of 1/DecayDen
    rewards,        \* weight_improve_best, weight_accept, weight_reject
    index_last_selection, \* RefCell<Option<usize>>: <<>> is None, <<i>> is Some(i)
    selects,        \* number of select() calls made
    feedbacks,      \* number of feedback() calls made
    last_call,      \* history: the last call made on the selector, with the
                    \* status fed back or the draw u of the selection
    panicked,       \* a panic! was raised
    \* ImprovingHeuristic::optimize (lib.rs) and the algorithm running it
    alg,            \* the implementor: "VNS", "LNS", "SA", or "ANY" heuristic
    initial,        \* the argument of optimize
    incumbent,      \* let mut incumbent
    best_solution,  \* let mut best_solution
    candidate,      \* let candidate: <<>> before the first proposal, else <<c>>
    returned,       \* the value optimize returned: <<>> while it runs
    pc,             \* the statement of the loop body to run next
    coolings,       \* SA: number of CoolingSchedule::cool calls so far
    draw,           \* SA: let r, the draw of the last accept_candidate, as
                    \* r = draw / DrawRes
    proposed,       \* history: every candidate proposed, in order
    select_log,     \* history: the select calls of the last propose_candidate,
                    \* in order: the selector called and the objective of
                    \* the solution passed to it
    destroyed,      \* LNS: let destroyed of the last propose_candidate
    calls,          \* history: number of calls of each hook
    callbacks,      \* history: the callbacks emitted in the current iteration
    \* Operator::find_best_neighbor (lib.rs) called on its own
    neighborhood,   \* the sequence construct_neighborhood yields
    winner,         \* let mut winner: Option<Solution>, <<>> is None
    \* the builders of the algorithms (algorithms/vns.rs, sa.rs, lns.rs)
    builder,        \* the builder: its algorithm and the Option fields that
                    \* are Some
    setters,        \* history: the setters called on the builder, in order
    built,          \* the outcome of build(): "" before the call, "built",
                    \* or the message of the expect that panicked
    \* TerminatorBuilder (termination.rs)
    term_builder,   \* the builder: its aggregator and its terminators
    term_calls,     \* history: the methods called on the builder, in order,
                    \* each with its argument
    \* the random number generators (rand::rngs::StdRng seeded by the caller)
    stream,         \* the raw draws a generator of the caller's seed gives
    rng,            \* draws taken from the heuristic's rng so far
    rng_selector,   \* draws taken from the RandomSelector's rng so far
    decisions,      \* history: the result of every accept_candidate call
    first_run       \* history: <<>> during a first run of optimize, else the
                    \* selections, candidates, decisions and result of a
                    \* completed first run

clockVars == <<now, permuted, results_permuted>>
termVars == <<terminator, results, now, permuted, results_permuted>>
seqVars == <<operators, operator_index, objective_best, objectives, selected>>
adaptVars == <<ctor, weights, decay, rewards, index_last_selection, selects,
               feedbacks, last_call, panicked>>
adaptRest == <<ctor, decay, rewards, index_last_selection, selects, feedbacks,
               last_call, panicked>>
loopVars == <<alg, initial, incumbent, best_solution, candidate, returned, pc,
              coolings, draw, proposed, select_log, destroyed, calls,
              callbacks>>
opVars == <<neighborhood, winner>>
tbVars == <<term_builder, term_calls>>
buildVars == <<builder, setters, built, term_builder, term_calls>>
rngVars == <<stream, rng, rng_selector, decisions, first_run>>
vars == <<terminator, results, now, permuted, results_permuted, operators, operator_index, objective_best,
          objectives, selected, ctor, weights, decay, rewards,
          index_last_selection, selects, feedbacks, last_call, panicked,
          alg, initial, incumbent, best_solution, candidate, returned, pc,
          coolings, draw, proposed, select_log, destroyed, calls, callbacks,
          neighborhood, winner, builder, setters, built, term_builder,
          term_calls,
          stream, rng, rng_selector, decisions, first_run>>

----------------------------------------------------------------------------
(* Bounds of the model *)

\* largest target n of an IterationTerminator
MaxTarget == 3
\* longest sub-criteria list of a composite terminator
MaxSubs == 2
\* number of terminate() calls made on a criterion under test
MaxCalls == 4
\* largest operator pool of a selector
MaxOps == 3
\* number of select() calls made on a selector under test
MaxSelects == 4
\* number of feedback() calls made on an adaptive selector under test
MaxFeedbacks == 3
\* the decay values tried are 0/DecayDen .. DecayDen/DecayDen
DecayDen == 2
\* the uniform draws tried are 0/DrawRes .. (DrawRes-1)/DrawRes
DrawRes == 32
\* number of loop iterations of optimize that are explored
MaxIter == 3
\* longest neighborhood find_best_neighbor is called on
MaxNeighbors == 3
\* number of setter calls made on a builder
MaxSetters == 5
\* the raw values a draw of a seeded generator is taken from are
\* 0..StreamRes-1
StreamRes == 2
\* largest iteration budget of a run that is repeated with the same seed
MaxRunIter == 2
\* largest operator pool of a RandomSelector
MaxPool == 2
\* number of method calls made on a TerminatorBuilder before build()
MaxBuilderCalls == 4
\* the durations a time criterion is built with are 0..MaxDuration ticks
MaxDuration == 2
\* the clock is followed up to MaxTime ticks
MaxTime == 3

----------------------------------------------------------------------------
(* Termination criteria: termination.rs *)

\* IterationTerminator::new(n) and TerminatorBuilder::iterations(n)
IterationTerminator(n) ==
    [kind |-> "Iteration", n |-> n, iteration |-> 0, terminators |-> <<>>,
     time_end |-> 0]

\* TimeTerminator { time_end }
TimeTerminator(time_end) ==
    [kind |-> "Time", n |-> 0, iteration |-> 0, terminators |-> <<>>,
     time_end |-> time_end]

\* OrTerminator { terminators }
OrTerminator(subs) ==
    [kind |-> "Or", n |-> 0, iteration |-> 0, terminators |-> subs,
     time_end |-> 0]

\* AndTerminator { terminators }
AndTerminator(subs) ==
    [kind |-> "And", n |-> 0, iteration |-> 0, terminators |-> subs,
     time_end |-> 0]

\* faulty variant: the counter is compared before it is incremented
IterationTerminator_terminate_CompareFirst(t) ==
    [result |-> (t.iteration = t.n),
     state |-> [t EXCEPT !.iteration = t.iteration + 1]]

\* IterationTerminator::terminate: increment, then compare with ==
IterationTerminator_terminate(t) ==
    LET it == t.iteration + 1
    IN  [result |-> (it = t.n), state |-> [t EXCEPT !.iteration = it]]

\* faulty variant: the deadline itself is not yet a reason to stop
TimeTerminator_terminate_After(t) ==
    [result |-> (now > t.time_end), state |-> t]

\* TimeTerminator::terminate: now >= self.time_end
TimeTerminator_terminate(t) ==
    [result |-> (now >= t.time_end), state |-> t]

\* x.terminate(solution) on a sub-criterion x of a composite, a primitive
Sub_terminate(t) ==
    CASE t.kind = "Iteration" -> IterationTerminator_terminate(t)
      [] t.kind = "Time" -> TimeTerminator_terminate(t)

\* Iterator::any over the sub-criteria from position i on: stops at the first
\* sub-criterion that returns true, the ones after it are not called
RECURSIVE IterAny(_, _)
IterAny(subs, i) ==
    IF i > Len(subs) THEN [result |-> FALSE, subs |-> subs]
    ELSE LET r == Sub_terminate(subs[i])
             s == [subs EXCEPT ![i] = r.state]
         IN  IF r.result THEN [result |-> TRUE, subs |-> s]
             ELSE IterAny(s, i + 1)

\* Iterator::all over the sub-criteria from position i on: stops at the first
\* sub-criterion that returns false, the ones after it are not called
RECURSIVE IterAll(_, _)
IterAll(subs, i) ==
    IF i > Len(subs) THEN [result |-> TRUE, subs |-> subs]
    ELSE LET r == Sub_terminate(subs[i])
             s == [subs EXCEPT ![i] = r.state]
         IN  IF r.result THEN IterAll(s, i + 1)
             ELSE [result |-> FALSE, subs |-> s]

\* faulty variant: the OR composite aggregates with all() instead of any()
OrTerminator_terminate_All(t) ==
    LET r == IterAll(t.terminators, 1)
    IN  [result |-> r.result, state |-> [t EXCEPT !.terminators = r.subs]]

\* OrTerminator::terminate
OrTerminator_terminate(t) ==
    LET r == IterAny(t.terminators, 1)
    IN  [result |-> r.result, state |-> [t EXCEPT !.terminators = r.subs]]

\* AndTerminator::terminate
AndTerminator_terminate(t) ==
    LET r == IterAll(t.terminators, 1)
    IN  [result |-> r.result, state |-> [t EXCEPT !.terminators = r.subs]]

\* dyn TerminationCriteria::terminate: dispatch on the concrete type
TerminationCriteria_terminate(t) ==
    CASE t.kind = "Iteration" -> IterationTerminator_terminate(t)
      [] t.kind = "Time" -> TimeTerminator_terminate(t)
      [] t.kind = "Or" -> OrTerminator_terminate(t)
      [] t.kind = "And" -> AndTerminator_terminate(t)

\* Terminator::builder
Terminator_builder == [aggregator |-> "Any", terminators |-> <<>>]

\* TerminatorBuilder::criterium: push the criterion c
TerminatorBuilder_criterium(b, c) ==
    [b EXCEPT !.terminators = Append(@, c)]

\* TerminatorBuilder::iterations: push an IterationTerminator with counter 0
TerminatorBuilder_iterations(b, n) ==
    [b EXCEPT !.terminators = Append(@, IterationTerminator(n))]

\* TerminatorBuilder::time_max: push a TimeTerminator of deadline
\* now + computation_time_max
TerminatorBuilder_time_max(b, computation_time_max) ==
    [b EXCEPT !.terminators =
        Append(@, TimeTerminator(now + computation_time_max))]

\* TerminatorBuilder::all
TerminatorBuilder_all(b) == [b EXCEPT !.aggregator = "All"]

\* TerminatorBuilder::any
TerminatorBuilder_any(b) == [b EXCEPT !.aggregator = "Any"]

\* faulty variant: the aggregators are swapped
TerminatorBuilder_build_Swapped(b) ==
    CASE b.aggregator = "All" -> OrTerminator(b.terminators)
      [] b.aggregator = "Any" -> AndTerminator(b.terminators)

\* TerminatorBuilder::build: the match on the aggregator
TerminatorBuilder_build(b) ==
    CASE b.aggregator = "All" -> AndTerminator(b.terminators)
      [] b.aggregator = "Any" -> OrTerminator(b.terminators)

\* sequences over S of length 0..n
SeqUpTo(S, n) == UNION {[1..k -> S] : k \in 0..n}

\* the criteria a caller can construct within the bounds
Primitives == {IterationTerminator(n) : n \in 0..MaxTarget}
Composites ==
    {OrTerminator(s) : s \in SeqUpTo(Primitives, MaxSubs)}
        \cup {AndTerminator(s) : s \in SeqUpTo(Primitives, MaxSubs)}

----------------------------------------------------------------------------
(* Solutions and their objective: the fixture of the crate's tests *)

\* numbers: the objective sequence of the tests; a solution (Number) is an
\* index into it, 0-based as in the source
numbers == <<9, 8, 7, 8, 9, 7, 5, 0>>

Solutions == 0..(Len(numbers) - 1)

\* Evaluate for Number: the value at the solution's index
evaluate(solution) == numbers[solution + 1]

ObjectiveValues == {evaluate(s) : s \in Solutions}

\* std::f32::INFINITY: above every objective value
INFINITY == (CHOOSE x \in ObjectiveValues : \A y \in ObjectiveValues : x >= y) + 1

----------------------------------------------------------------------------
(* SequentialSelector: selectors.rs (and its older copy in lib.rs) *)

\* SequentialSelector::new: cursor 0, best objective +infinity
SequentialSelector_new == [operator_index |-> 0, objective_best |-> INFINITY]

\* faulty variant: an equal objective counts as an improvement
SequentialSelector_select_Le(sel, count, objective) ==
    IF objective <= sel.objective_best
    THEN [operator_index |-> sel.operator_index - sel.operator_index,
          objective_best |-> objective]
    ELSE [operator_index |-> (sel.operator_index + 1) % count,
          objective_best |-> sel.objective_best]

\* faulty variant: the cursor stops at the last operator instead of wrapping
SequentialSelector_select_NoWrap(sel, count, objective) ==
    IF objective < sel.objective_best
    THEN [operator_index |-> 0, objective_best |-> objective]
    ELSE [operator_index |-> IF sel.operator_index + 1 < count
                             THEN sel.operator_index + 1
                             ELSE sel.operator_index,
          objective_best |-> sel.objective_best]

\* SequentialSelector::select on a pool of count >= 1 operators: the
\* selector's state after the call; the operator returned is the one at the
\* new operator_index
SequentialSelector_select(sel, count, objective) ==
    LET k == sel.operator_index
    IN  IF objective < sel.objective_best
        THEN [operator_index |-> k - k, objective_best |-> objective]
        ELSE [operator_index |-> (k + 1) % count,
              objective_best |-> sel.objective_best]

----------------------------------------------------------------------------
(* AdaptiveSelector: selectors.rs (SelectorAdaptive in lib.rs) *)

\* the fixed-point unit of the weights: after at most MaxFeedbacks updates
\* with a decay of k/DecayDen every weight is a whole number of 1/Scale
RECURSIVE Power(_, _)
Power(b, e) == IF e = 0 THEN 1 ELSE b * Power(b, e - 1)
Scale == Power(DecayDen, MaxFeedbacks)

ProposalEvaluation == {"ImprovedBest", "Accept", "Reject"}

\* AdaptiveSelector::default_weights: the rewards 3, 1, 0
DefaultRewards == [improve_best |-> 3, accept |-> 1, reject |-> 0]

\* the weight pushed by AdaptiveSelector::operator (vec![1.; n] in lib.rs)
InitialWeight == 1 * Scale

\* the match on status in feedback
Reward(r, status) ==
    CASE status = "ImprovedBest" -> r.improve_best
      [] status = "Accept" -> r.accept
      [] status = "Reject" -> r.reject

\* faulty variant: the reward is added to the old weight instead of blended with it
AdaptiveSelector_feedback_Additive(w, last, d, r, status) ==
    IF last = <<>> THEN w
    ELSE LET index == last[1] + 1
         IN  [w EXCEPT ![index] = w[index] + (d * Reward(r, status) * Scale) \div DecayDen]

\* AdaptiveSelector::feedback: the weights after the call.
\* weights[index] = (1 - decay) * weights[index] + decay * weight
AdaptiveSelector_feedback(w, last, d, r, status) ==
    IF last = <<>> THEN w
    ELSE LET index == last[1] + 1
         IN  [w EXCEPT ![index] =
                ((DecayDen - d) * w[index] + d * Reward(r, status) * Scale) \div DecayDen]

RECURSIVE SumTo(_, _)
SumTo(w, i) == IF i = 0 THEN 0 ELSE w[i] + SumTo(w, i - 1)

\* the scan of AdaptiveSelector::select for the draw u/DrawRes from position
\* i on: the index selected (0-based), or <<>> when the scan ends without a
\* selection and the function panics.  r <= sum with r = (u/DrawRes) * denom
RECURSIVE SelectScan(_, _, _)
SelectScan(w, u, i) ==
    IF i > Len(w) THEN <<>>
    ELSE IF u * SumTo(w, Len(w)) <= SumTo(w, i) * DrawRes THEN <<i - 1>>
    ELSE SelectScan(w, u, i + 1)

\* the scan of the faulty variant below: the running sum has to exceed the
\* draw
RECURSIVE SelectScan_Exceeds(_, _, _)
SelectScan_Exceeds(w, u, i) ==
    IF i > Len(w) THEN <<>>
    ELSE IF u * SumTo(w, Len(w)) < SumTo(w, i) * DrawRes THEN <<i - 1>>
    ELSE SelectScan_Exceeds(w, u, i + 1)

\* faulty variant: an operator whose running sum equals the draw is passed
\* over
AdaptiveSelector_select_Exceeds(w, u) == SelectScan_Exceeds(w, u, 1)

\* AdaptiveSelector::select with the uniform draw u/DrawRes
AdaptiveSelector_select(w, u) == SelectScan(w, u, 1)

----------------------------------------------------------------------------
(* Operators: lib.rs and the operators of the crate's tests (test.rs) *)

\* faulty variant: every solution up to distance n is a neighbor
construct_neighborhood_Within(n, solution) ==
    SelectSeq([i \in 1..(2 * n + 1) |-> solution - n + i - 1],
              LAMBDA x : x # solution /\ x >= 0 /\ x <= Len(numbers) - 1)

\* NeighborsUpUntilN::construct_neighborhood and its Iterator::next: the
\* solution at index - n when it is >= 0, then the one at index + n when it
\* is <= the last index
construct_neighborhood(n, solution) ==
    (IF solution - n < 0 THEN <<>> ELSE <<solution - n>>)
        \o (IF solution + n <= Len(numbers) - 1 THEN <<solution + n>> ELSE <<>>)

\* the loop of the faulty variant below: a later neighbor of equal objective
\* replaces the winner
RECURSIVE find_best_neighbor_from_Le(_, _, _)
find_best_neighbor_from_Le(nbh, i, w) ==
    IF i > Len(nbh) THEN w
    ELSE IF w # <<>> /\ ~(evaluate(nbh[i]) <= evaluate(w[1]))
         THEN find_best_neighbor_from_Le(nbh, i + 1, w)
         ELSE find_best_neighbor_from_Le(nbh, i + 1, <<nbh[i]>>)

\* faulty variant: on ties the last neighbor of lowest objective wins
find_best_neighbor_Le(nbh) == find_best_neighbor_from_Le(nbh, 1, <<>>)

\* the for loop of Operator::find_best_neighbor from the i-th neighbor on,
\* with the winner w so far: the first neighbor becomes the winner, a later
\* one replaces it when its objective is strictly lower
RECURSIVE find_best_neighbor_from(_, _, _)
find_best_neighbor_from(nbh, i, w) ==
    IF i > Len(nbh) THEN w
    ELSE IF w # <<>> /\ ~(evaluate(nbh[i]) < evaluate(w[1]))
         THEN find_best_neighbor_from(nbh, i + 1, w)
         ELSE find_best_neighbor_from(nbh, i + 1, <<nbh[i]>>)

\* Operator::find_best_neighbor over an enumerated neighborhood: the winner
\* after the loop; <<>> is None, on which expect panics
find_best_neighbor(nbh) == find_best_neighbor_from(nbh, 1, <<>>)

\* the raw values a draw can take
RawDraws == 0..(StreamRes - 1)

\* rng.gen_range(0..n) for the raw draw g
gen_range(n, g) == g % n

\* rng.gen::<f32>() for the raw draw g: the r = u / DrawRes it gives, as u
gen_f32(g) == (g * DrawRes) \div StreamRes

\* the options of NeighborSwap::shake: the left neighbour in the sequence
\* when there is one, then the right one when there is one
shake_options(solution) ==
    (IF solution - 1 >= 0 THEN <<solution - 1>> ELSE <<>>)
        \o (IF solution + 1 < Len(numbers) THEN <<solution + 1>> ELSE <<>>)

\* NeighborSwap::shake for the raw draw g: the only option when there is
\* one, else options.remove(rng.gen_range(0..2))
shake(solution, g) ==
    LET options == shake_options(solution)
    IN  IF Len(options) = 1 THEN options[1]
        ELSE options[gen_range(2, g) + 1]

\* the number of draws NeighborSwap::shake takes from the rng
shake_draws(solution) == IF Len(shake_options(solution)) = 1 THEN 0 ELSE 1

\* RandomSelector::select on a pool of count operators for the raw draw g
RandomSelector_select(count, g) == gen_range(count, g)

\* the draws a proposal can be given: the next draw of the selector's rng and
\* the next two of the heuristic's rng
Gens == [selector : RawDraws, rng : [1..2 -> RawDraws]]

\* faulty variant: the generator is not seeded by the caller
RngGen_Unseeded(s, taken) == RawDraws

\* the next draw of a generator of which `taken` draws were taken: the values
\* it can have
RngGen(s, taken) == {s[taken + 1]}

\* the radii n of the NeighborsUpUntilN operators a pool is built from
Radii == {1, 3, 4, 5}

----------------------------------------------------------------------------
(* Simulated annealing: algorithms/sa.rs *)

\* FactorSchedule::new(temperature, decay) of the crate's test: temperature
\* 100 and decay 0.05 = cooling_factor_num / cooling_factor_den
initial_temperature == 100
\* the iteration budget of the crate's VNS tests
iterations_max == 10
cooling_factor_num == 1
cooling_factor_den == 20

\* FactorSchedule::temperature after c calls of FactorSchedule::cool, each
\* of which multiplies the temperature by (1 - cooling_factor): the fraction
\* num / den
temperature(c) ==
    [num |-> initial_temperature * Power(cooling_factor_den - cooling_factor_num, c),
     den |-> Power(cooling_factor_den, c)]

\* compute_probability, given by the exponent x = num / den of its result
\* exp(x): delta = incumbent - candidate; for delta < 0 the result is
\* exp(-delta / temperature), else it is 1 = exp(0)
compute_probability(t, objective_incumbent, objective_candidate) ==
    LET delta == objective_incumbent - objective_candidate
    IN  IF delta < 0 THEN [num |-> (0 - delta) * t.den, den |-> t.num]
        ELSE [num |-> 0, den |-> 1]

Abs(x) == IF x < 0 THEN 0 - x ELSE x

\* r <= exp(x) for the draw r = u / DrawRes in [0, 1): the truth values it
\* can have.  For x >= 0 it holds, as r < 1 <= exp(x).  For x = -y < 0 it
\* holds when r <= 1 - y (<= exp(-y)), fails when r > 1 / (1 + y)
\* (>= exp(-y)), and is left open in between.
DrawAccepts(u, x) ==
    IF x.num = 0 \/ (x.num > 0) = (x.den >= 0) THEN {TRUE}
    ELSE IF u * Abs(x.den) <= DrawRes * (Abs(x.den) - Abs(x.num)) THEN {TRUE}
    ELSE IF u * (Abs(x.den) + Abs(x.num)) > DrawRes * Abs(x.den) THEN {FALSE}
    ELSE BOOLEAN

\* SimulatedAnnealing::accept_candidate after c coolings with the draw
\* r = u / DrawRes: the results it can give
SA_accept_candidate(c, cand, inc, u) ==
    IF evaluate(cand) < evaluate(inc) THEN {TRUE}
    ELSE DrawAccepts(u, compute_probability(temperature(c),
                            evaluate(inc), evaluate(cand)))

\* the draws self.rng.borrow_mut().gen() of accept_candidate can give; the
\* other implementors draw nothing
Draws(a) == IF a = "SA" THEN 0..(DrawRes - 1) ELSE {0}

----------------------------------------------------------------------------
(* ImprovingHeuristic::optimize: lib.rs *)

Algorithms == {"ANY", "VNS", "LNS", "SA"}

\* faulty variant: a candidate of equal objective replaces the best solution
ImprovesBest_Le(cand, best) == evaluate(cand) <= evaluate(best)

\* faulty variant: the comparison is reversed
ImprovesBest_Gt(cand, best) == evaluate(cand) > evaluate(best)

\* if candidate.evaluate() < best_solution.evaluate()
ImprovesBest(cand, best) == evaluate(cand) < evaluate(best)

\* faulty variant: the comparison is reversed, a worse candidate is accepted
strict_accept_candidate_Gt(cand, inc) == evaluate(cand) > evaluate(inc)

\* faulty variant: a candidate of equal objective is accepted
strict_accept_candidate_Le(cand, inc) == evaluate(cand) <= evaluate(inc)

\* VariableNeighborhoodSearch::accept_candidate and
\* LargeNeighborhoodSearch::accept_candidate
strict_accept_candidate(cand, inc) == evaluate(cand) < evaluate(inc)

\* accept_candidate of the implementor: the results it can give
accept_candidate(a, c, cand, inc, u) ==
    CASE a = "ANY" -> BOOLEAN
      [] a = "VNS" -> {strict_accept_candidate(cand, inc)}
      [] a = "LNS" -> {strict_accept_candidate(cand, inc)}
      [] a = "SA" -> SA_accept_candidate(c, cand, inc, u)

\* a select call on one of the heuristic's selectors, as logged
SelectCall(selector, solution) ==
    [selector |-> selector, objective |-> evaluate(solution)]

\* VariableNeighborhoodSearch::propose_candidate: select with the incumbent,
\* then find_best_neighbor of the selected operator; an empty pool makes
\* select panic (index out of bounds)
VNS_propose_candidate(ops, sel, inc) ==
    IF Len(ops) = 0
    THEN {[candidate |-> <<>>, sel |-> sel, selected |-> <<>>,
           log |-> <<SelectCall("selector", inc)>>, destroyed |-> <<>>,
           rng |-> 0, rng_selector |-> 0]}
    ELSE LET s == SequentialSelector_select(sel, Len(ops), evaluate(inc))
             n == ops[s.operator_index + 1]
         IN  {[candidate |-> find_best_neighbor(construct_neighborhood(n, inc)),
               sel |-> s, selected |-> <<s.operator_index>>,
               log |-> <<SelectCall("selector", inc)>>, destroyed |-> <<>>,
               rng |-> 0, rng_selector |-> 0]}

\* faulty variant: the repairer is selected first and is applied to the
\* incumbent instead of the destroyed solution
LNS_propose_candidate_RepairFirst(sel, inc, g) ==
    {[candidate |-> <<shake(inc, g.rng[1])>>, sel |-> sel, selected |-> <<>>,
      log |-> <<SelectCall("selector_repairer", inc),
                SelectCall("selector_destroyer", inc)>>,
      destroyed |-> <<shake(inc, g.rng[shake_draws(inc) + 1])>>,
      rng |-> 2 * shake_draws(inc), rng_selector |-> 0]}

\* LargeNeighborhoodSearch::propose_candidate with one destroyer and one
\* repairer (pools of one operator, from which every select returns the
\* operator at index 0): select on the destroyer selector, select on the
\* repairer selector, shake the incumbent, then shake the result
LNS_propose_candidate(sel, inc, g) ==
    LET d == shake(inc, g.rng[1])
        repaired == shake(d, g.rng[shake_draws(inc) + 1])
    IN  {[candidate |-> <<repaired>>, sel |-> sel, selected |-> <<>>,
          log |-> <<SelectCall("selector_destroyer", inc),
                    SelectCall("selector_repairer", inc)>>,
          destroyed |-> <<d>>,
          rng |-> shake_draws(inc) + shake_draws(d), rng_selector |-> 0]}

\* SimulatedAnnealing::propose_candidate with a RandomSelector over a pool of
\* NeighborSwap operators: select, then shake the incumbent (then cool, see
\* ProposeOutcome); on an empty pool gen_range(0..0) panics
SA_propose_candidate(ops, sel, inc, g) ==
    IF Len(ops) = 0
    THEN {[candidate |-> <<>>, sel |-> sel, selected |-> <<>>,
           log |-> <<SelectCall("selector", inc)>>, destroyed |-> <<>>,
           rng |-> 0, rng_selector |-> 0]}
    ELSE {[candidate |-> <<shake(inc, g.rng[1])>>, sel |-> sel,
           selected |-> <<RandomSelector_select(Len(ops), g.selector)>>,
           log |-> <<SelectCall("selector", inc)>>, destroyed |-> <<>>,
           rng |-> shake_draws(inc), rng_selector |-> 1]}

\* propose_candidate of the implementor given the draws g: the outcomes it
\* can have; a candidate <<>> is a panic
propose_candidate(a, ops, sel, inc, g) ==
    CASE a = "ANY" ->
            {[candidate |-> <<c>>, sel |-> sel, selected |-> <<>>,
              log |-> <<>>, destroyed |-> <<>>,
              rng |-> 0, rng_selector |-> 0] : c \in Solutions}
      [] a = "VNS" -> VNS_propose_candidate(ops, sel, inc)
      [] a = "LNS" -> LNS_propose_candidate(sel, inc, g)
      [] a = "SA" -> SA_propose_candidate(ops, sel, inc, g)

\* the operator pools a heuristic's selector is built with: NeighborsUpUntilN
\* operators of any radii for VNS, NeighborSwap operators for SA
Pools(a) ==
    CASE a = "VNS" -> SeqUpTo(Radii, MaxOps)
      [] a = "SA" -> SeqUpTo({1}, MaxPool)
      [] OTHER -> {<<>>}

\* the pools of the crate's tests: for SA the single NeighborSwap
TestPools(a) == IF a = "SA" THEN {<<1>>} ELSE Pools(a)

\* callback_candidate_improved_best, callback_candidate_accepted and
\* callback_candidate_rejected: the selector's weights after the call.  The
\* bodies are the empty defaults of the trait, which no implementor
\* overrides
callback_candidate_improved_best(w) == w
callback_candidate_accepted(w) == w
callback_candidate_rejected(w) == w

\* faulty variant: optimize returns the incumbent
optimize_result_Incumbent(best, inc) == inc

\* the value of optimize: best_solution
optimize_result(best, inc) == best

\* one round of the loop as documented on the trait, steps 2 and 3, from the
\* incumbent and best solution in p: if the candidate is accepted it becomes
\* the incumbent, and then the best solution when its objective is lower
documented_round(p, cand, accepted) ==
    IF accepted
    THEN [incumbent |-> cand,
          best_solution |-> IF evaluate(cand) < evaluate(p.best_solution)
                            THEN cand ELSE p.best_solution]
    ELSE p

\* the loop as documented on the trait after the rounds of the candidates
\* cands, accepted as in accepts: incumbent = initial, then one round each
RECURSIVE documented_optimize(_, _, _, _)
documented_optimize(init, cands, accepts, k) ==
    IF k = 0 THEN [incumbent |-> init, best_solution |-> init]
    ELSE documented_round(documented_optimize(init, cands, accepts, k - 1),
                          cands[k], accepts[k])

\* the termination criteria a heuristic is built with
LoopTerminators ==
    Primitives \cup {OrTerminator(<<>>), AndTerminator(<<>>)}

----------------------------------------------------------------------------
(* The builders: algorithms/vns.rs, algorithms/sa.rs, algorithms/lns.rs *)

\* the setters of each builder; SABuilder::operator pushes onto a Vec, every
\* other setter stores Some(..) in the Option field of its name
BuilderSetters(a) ==
    CASE a = "VNS" -> {"selector", "terminator", "rng"}
      [] a = "SA" -> {"terminator", "operator", "selector", "rng",
                      "cooling_schedule"}
      [] a = "LNS" -> {"terminator", "selector_destroyer",
                       "selector_repairer", "rng"}

\* VariableNeighborhoodSearch::builder, SimulatedAnnealing::builder,
\* LargeNeighborhoodSearch::builder: every Option field None
NewBuilder(a) == [alg |-> a, fields |-> {}]

\* the setter named f called on the builder
BuilderSet(b, f) ==
    IF f = "operator" THEN b ELSE [b EXCEPT !.fields = @ \cup {f}]

\* VNSBuilder::build: the expects in the order of the struct literal
VNSBuilder_build(fields) ==
    IF "selector" \notin fields THEN "Did not specify an operator selector"
    ELSE IF "terminator" \notin fields
         THEN "Did not specify termination criteria"
    ELSE "built"

\* faulty variant: a missing cooling schedule is not detected
SABuilder_build_NoSchedule(fields) ==
    IF "rng" \notin fields THEN "No RNG source specified"
    ELSE IF "selector" \notin fields
         THEN "No operator selection strategy specified"
    ELSE IF "terminator" \notin fields
         THEN "No termination criteria specified"
    ELSE "built"

\* SABuilder::build
SABuilder_build(fields) ==
    IF "rng" \notin fields THEN "No RNG source specified"
    ELSE IF "selector" \notin fields
         THEN "No operator selection strategy specified"
    ELSE IF "terminator" \notin fields
         THEN "No termination criteria specified"
    ELSE IF "cooling_schedule" \notin fields
         THEN "No cooling schedule specified"
    ELSE "built"

\* LNSBuilder::build
LNSBuilder_build(fields) ==
    IF "selector_destroyer" \notin fields
    THEN "No destroyer selector specified"
    ELSE IF "selector_repairer" \notin fields
         THEN "No repairer selector specified"
    ELSE IF "terminator" \notin fields
         THEN "No termination criteria specified"
    ELSE IF "rng" \notin fields THEN "No RNG source specified"
    ELSE "built"

\* build() of the builder
build(b) ==
    CASE b.alg = "VNS" -> VNSBuilder_build(b.fields)
      [] b.alg = "SA" -> SABuilder_build(b.fields)
      [] b.alg = "LNS" -> LNSBuilder_build(b.fields)

----------------------------------------------------------------------------
(* The components a specification does not exercise stay as constructed *)

ClockIdle ==
    /\ now = 0
    /\ permuted = IterationTerminator(0)
    /\ results_permuted = <<>>

TermIdle ==
    /\ terminator = IterationTerminator(0)
    /\ results = <<>>
    /\ ClockIdle

SeqIdle ==
    /\ operators = <<1>>
    /\ operator_index = 0
    /\ objective_best = INFINITY
    /\ objectives = <<>>
    /\ selected = <<>>

AdaptIdle ==
    /\ ctor = "default_weights"
    /\ weights = <<>>
    /\ decay = 0
    /\ rewards = DefaultRewards
    /\ index_last_selection = <<>>
    /\ selects = 0
    /\ feedbacks = 0
    /\ last_call = [name |-> "new", status |-> "", draw |-> 0]
    /\ panicked = FALSE

LoopIdle ==
    /\ alg = "ANY"
    /\ initial = 0
    /\ incumbent = 0
    /\ best_solution = 0
    /\ candidate = <<>>
    /\ returned = <<>>
    /\ pc = "idle"
    /\ coolings = 0
    /\ draw = 0
    /\ proposed = <<>>
    /\ select_log = <<>>
    /\ destroyed = <<>>
    /\ calls = [propose |-> 0, accept |-> 0, should_terminate |-> 0]
    /\ callbacks = <<>>

OpIdle ==
    /\ neighborhood = <<>>
    /\ winner = <<>>

TermBuildIdle ==
    /\ term_builder = [aggregator |-> "Any", terminators |-> <<>>]
    /\ term_calls = <<>>

BuildIdle ==
    /\ builder = [alg |-> "VNS", fields |-> {}]
    /\ setters = <<>>
    /\ built = ""
    /\ TermBuildIdle

RngIdle ==
    /\ stream = <<>>
    /\ rng = 0
    /\ rng_selector = 0
    /\ decisions = <<>>
    /\ first_run = <<>>

----------------------------------------------------------------------------
(* A sequential selector called repeatedly with solutions of any objective *)

SeqInit ==
    /\ \E k \in 1..MaxOps : operators = [i \in 1..k |-> 1]
    /\ operator_index = SequentialSelector_new.operator_index
    /\ objective_best = SequentialSelector_new.objective_best
    /\ objectives = <<>>
    /\ selected = <<>>
    /\ TermIdle
    /\ AdaptIdle
    /\ LoopIdle
    /\ OpIdle
    /\ BuildIdle
    /\ RngIdle

Select ==
    /\ Len(objectives) < MaxSelects
    /\ \E objective \in ObjectiveValues :
        LET sel == SequentialSelector_select(
                       [operator_index |-> operator_index,
                        objective_best |-> objective_best],
                       Len(operators), objective)
        IN  /\ operator_index' = sel.operator_index
            /\ objective_best' = sel.objective_best
            /\ objectives' = Append(objectives, objective)
            /\ selected' = Append(selected, sel.operator_index)
    /\ UNCHANGED <<operators, termVars>>
    /\ UNCHANGED <<adaptVars, loopVars, opVars, buildVars, rngVars>>

SeqNext == Select

SpecSeq == SeqInit /\ [][SeqNext]_vars

----------------------------------------------------------------------------
(* An adaptive selector: operators are added, and select and feedback are  *)
(* called in any order.                                                    *)

AdaptInit ==
    /\ ctor = "default_weights"
    /\ weights = <<>>
    /\ decay \in 0..DecayDen
    /\ rewards = DefaultRewards
    /\ index_last_selection = <<>>
    /\ selects = 0
    /\ feedbacks = 0
    /\ last_call = [name |-> "new", status |-> "", draw |-> 0]
    /\ panicked = FALSE
    /\ SeqIdle
    /\ TermIdle
    /\ LoopIdle
    /\ OpIdle
    /\ BuildIdle
    /\ RngIdle

\* AdaptiveSelector::operator
AddOperator ==
    /\ ~panicked
    /\ Len(weights) < MaxOps
    /\ weights' = Append(weights, InitialWeight)
    /\ last_call' = [name |-> "operator", status |-> "", draw |-> 0]
    /\ UNCHANGED <<ctor, decay, rewards, index_last_selection, selects,
                   feedbacks, panicked>>
    /\ UNCHANGED <<termVars, seqVars, loopVars, opVars, buildVars, rngVars>>

\* AdaptiveSelector::select
AdaptiveSelect ==
    /\ ~panicked
    /\ selects < MaxSelects
    /\ \E u \in 0..(DrawRes - 1) :
        LET i == AdaptiveSelector_select(weights, u)
        IN  /\ index_last_selection' =
                    IF i = <<>> THEN index_last_selection ELSE i
            /\ panicked' = (i = <<>>)
            /\ last_call' = [name |-> "select", status |-> "", draw |-> u]
    /\ selects' = selects + 1
    /\ UNCHANGED <<ctor, weights, decay, rewards, feedbacks>>
    /\ UNCHANGED <<termVars, seqVars, loopVars, opVars, buildVars, rngVars>>

\* AdaptiveSelector::feedback
Feedback ==
    /\ ~panicked
    /\ feedbacks < MaxFeedbacks
    /\ \E status \in ProposalEvaluation :
        /\ weights' = AdaptiveSelector_feedback(
                          weights, index_last_selection, decay, rewards, status)
        /\ last_call' = [name |-> "feedback", status |-> status, draw |-> 0]
    /\ feedbacks' = feedbacks + 1
    /\ UNCHANGED <<ctor, decay, rewards, index_last_selection, selects,
                   panicked>>
    /\ UNCHANGED <<termVars, seqVars, loopVars, opVars, buildVars, rngVars>>

AdaptNext == AddOperator \/ AdaptiveSelect \/ Feedback

SpecAdapt == AdaptInit /\ [][AdaptNext]_vars

----------------------------------------------------------------------------
(* An adaptive selector built by either constructor with any decay and any  *)
(* rewards: the constructors store their f32 arguments as given              *)

\* the decays tried, in units of 1/DecayDen: below 0, within [0, 1], above 1
DecayValues == (0 - 1)..(DecayDen + 1)

\* the rewards custom_weights is called with
CustomRewards == [improve_best : {3}, accept : {0 - 1, 1}, reject : {0 - 1}]

AnyAdaptInit ==
    /\ \/ ctor = "default_weights" /\ rewards = DefaultRewards
       \/ ctor = "custom_weights" /\ rewards \in CustomRewards
    /\ weights = <<>>
    /\ decay \in DecayValues
    /\ index_last_selection = <<>>
    /\ selects = 0
    /\ feedbacks = 0
    /\ last_call = [name |-> "new", status |-> "", draw |-> 0]
    /\ panicked = FALSE
    /\ SeqIdle
    /\ TermIdle
    /\ LoopIdle
    /\ OpIdle
    /\ BuildIdle
    /\ RngIdle

AnyAddOperator == AddOperator

AnyAdaptiveSelect == AdaptiveSelect

AnyFeedback == Feedback

AnyAdaptNext == AnyAddOperator \/ AnyAdaptiveSelect \/ AnyFeedback

SpecAnyAdapt == AnyAdaptInit /\ [][AnyAdaptNext]_vars

----------------------------------------------------------------------------
(* optimize run by each algorithm, one statement of the loop body per step *)

\* the state at the head of the loop: let mut incumbent = initial;
\* let mut best_solution = incumbent.clone();
LoopHead ==
    /\ incumbent = initial
    /\ best_solution = incumbent
    /\ candidate = <<>>
    /\ returned = <<>>
    /\ pc = "propose"
    /\ coolings = 0
    /\ draw = 0
    /\ proposed = <<>>
    /\ select_log = <<>>
    /\ destroyed = <<>>
    /\ calls = [propose |-> 0, accept |-> 0, should_terminate |-> 0]
    /\ callbacks = <<>>
    /\ results = <<>>
    /\ ClockIdle
    /\ operator_index = SequentialSelector_new.operator_index
    /\ objective_best = SequentialSelector_new.objective_best
    /\ objectives = <<>>
    /\ selected = <<>>

LoopInit ==
    /\ alg \in Algorithms
    /\ initial \in Solutions
    /\ terminator \in LoopTerminators
    /\ operators \in TestPools(alg)
    /\ LoopHead
    /\ AdaptIdle
    /\ OpIdle
    /\ BuildIdle
    /\ RngIdle

\* let candidate = self.propose_candidate(incumbent.clone()); with the
\* outcome o of the call
ProposeOutcome(o) ==
    /\ candidate' = o.candidate
    /\ operator_index' = o.sel.operator_index
    /\ objective_best' = o.sel.objective_best
    /\ selected' = selected \o o.selected
    /\ objectives' = IF o.selected = <<>> THEN objectives
                     ELSE Append(objectives, evaluate(incumbent))
    /\ proposed' = proposed \o o.candidate
    /\ select_log' = o.log
    /\ destroyed' = o.destroyed
    /\ panicked' = (o.candidate = <<>>)
    /\ pc' = IF o.candidate = <<>> THEN "panicked" ELSE "improve"
    /\ coolings' = IF alg = "SA" THEN coolings + 1 ELSE coolings
    /\ calls' = [calls EXCEPT !.propose = @ + 1]
    /\ callbacks' = <<>>
    /\ UNCHANGED <<alg, initial, incumbent, best_solution, returned, operators,
                   draw>>
    /\ UNCHANGED <<termVars, opVars, buildVars, ctor, weights, decay,
                   rewards, index_last_selection, selects, feedbacks,
                   last_call>>

\* the proposal, whatever the generators give
Propose ==
    /\ pc = "propose"
    /\ calls.propose < MaxIter
    /\ \E g \in Gens :
        \E o \in propose_candidate(alg, operators,
                    [operator_index |-> operator_index,
                     objective_best |-> objective_best], incumbent, g) :
            ProposeOutcome(o)
    /\ UNCHANGED rngVars

\* if candidate.evaluate() < best_solution.evaluate() { .. }
UpdateBest ==
    /\ pc = "improve"
    /\ IF ImprovesBest(candidate[1], best_solution)
       THEN /\ callbacks' = Append(callbacks, "improved_best")
            /\ weights' = callback_candidate_improved_best(weights)
            /\ best_solution' = candidate[1]
       ELSE UNCHANGED <<callbacks, weights, best_solution>>
    /\ pc' = "accept"
    /\ UNCHANGED <<alg, initial, incumbent, candidate, returned, coolings,
                   draw, proposed, select_log, destroyed, calls>>
    /\ UNCHANGED <<termVars, seqVars, adaptRest, opVars, buildVars, rngVars>>

\* faulty variant: after a rejection the loop proposes again at once, without
\* the termination check
AcceptOutcome_Retry(u) ==
    /\ draw' = u
    /\ \E accepted \in accept_candidate(alg, coolings, candidate[1],
                                         incumbent, u) :
        IF accepted
        THEN /\ callbacks' = Append(callbacks, "accepted")
             /\ weights' = callback_candidate_accepted(weights)
             /\ incumbent' = candidate[1]
             /\ pc' = "terminate"
        ELSE /\ callbacks' = Append(callbacks, "rejected")
             /\ weights' = callback_candidate_rejected(weights)
             /\ UNCHANGED incumbent
             /\ pc' = "propose"
    /\ calls' = [calls EXCEPT !.accept = @ + 1]
    /\ UNCHANGED <<alg, initial, best_solution, candidate, returned, coolings,
                   proposed, select_log, destroyed>>
    /\ UNCHANGED <<termVars, seqVars, adaptRest, opVars, buildVars>>

\* if self.accept_candidate(&candidate, &incumbent) { .. } else { .. } with
\* the draw r = u / DrawRes
AcceptOutcome(u) ==
    /\ draw' = u
    /\ \E accepted \in accept_candidate(alg, coolings, candidate[1],
                                         incumbent, u) :
        IF accepted
        THEN /\ callbacks' = Append(callbacks, "accepted")
             /\ weights' = callback_candidate_accepted(weights)
             /\ incumbent' = candidate[1]
        ELSE /\ callbacks' = Append(callbacks, "rejected")
             /\ weights' = callback_candidate_rejected(weights)
             /\ UNCHANGED incumbent
    /\ calls' = [calls EXCEPT !.accept = @ + 1]
    /\ pc' = "terminate"
    /\ UNCHANGED <<alg, initial, best_solution, candidate, returned, coolings,
                   proposed, select_log, destroyed>>
    /\ UNCHANGED <<termVars, seqVars, adaptRest, opVars, buildVars>>

\* the acceptance decision, whatever the generator gives
Accept ==
    /\ pc = "accept"
    /\ \E u \in Draws(alg) : AcceptOutcome(u)
    /\ UNCHANGED rngVars

\* if self.should_terminate(&incumbent) { break; } .. best_solution
ShouldTerminate ==
    /\ pc = "terminate"
    /\ LET r == TerminationCriteria_terminate(terminator)
       IN  /\ terminator' = r.state
           /\ results' = Append(results, r.result)
           /\ pc' = IF r.result THEN "done" ELSE "propose"
           /\ returned' = IF r.result
                          THEN <<optimize_result(best_solution, incumbent)>>
                          ELSE returned
    /\ calls' = [calls EXCEPT !.should_terminate = @ + 1]
    /\ UNCHANGED <<alg, initial, incumbent, best_solution, candidate, coolings,
                   draw, proposed, select_log, destroyed, callbacks>>
    /\ UNCHANGED <<clockVars, seqVars, adaptVars, opVars, buildVars, rngVars>>

LoopNext == Propose \/ UpdateBest \/ Accept \/ ShouldTerminate

SpecLoop == LoopInit /\ [][LoopNext]_vars

----------------------------------------------------------------------------
(* optimize run twice by heuristics built alike, with generators seeded      *)
(* alike, on the same initial solution                                       *)

\* the draws a run can need: two per iteration from the heuristic's rng
StreamLen == 2 * MaxRunIter

\* the streams of the seeds; VariableNeighborhoodSearch holds no rng
Streams(a) ==
    IF a = "VNS" THEN {[i \in 1..StreamLen |-> 0]}
    ELSE [1..StreamLen -> RawDraws]

SeededInit ==
    /\ alg \in {"VNS", "LNS", "SA"}
    /\ initial \in Solutions
    /\ terminator \in {IterationTerminator(n) : n \in 1..MaxRunIter}
    /\ operators \in Pools(alg)
    /\ stream \in Streams(alg)
    /\ rng = 0
    /\ rng_selector = 0
    /\ decisions = <<>>
    /\ first_run = <<>>
    /\ LoopHead
    /\ AdaptIdle
    /\ OpIdle
    /\ BuildIdle

\* the proposal, its draws taken from the seeded generators
SeededPropose ==
    /\ pc = "propose"
    /\ calls.propose < MaxIter
    /\ \E gs \in RngGen(stream, rng_selector), g1 \in RngGen(stream, rng),
          g2 \in RngGen(stream, rng + 1) :
        \E o \in propose_candidate(alg, operators,
                    [operator_index |-> operator_index,
                     objective_best |-> objective_best], incumbent,
                    [selector |-> gs, rng |-> <<g1, g2>>]) :
            /\ ProposeOutcome(o)
            /\ rng' = rng + o.rng
            /\ rng_selector' = rng_selector + o.rng_selector
    /\ UNCHANGED <<stream, decisions, first_run>>

SeededUpdateBest == UpdateBest

\* faulty variant: SA draws only when the candidate does not improve on the
\* incumbent
SeededAccept_LazyDraw ==
    /\ pc = "accept"
    /\ IF alg = "SA" /\ ~(evaluate(candidate[1]) < evaluate(incumbent))
       THEN /\ \E g \in RngGen(stream, rng) : AcceptOutcome(gen_f32(g))
            /\ rng' = rng + 1
       ELSE /\ AcceptOutcome(0)
            /\ rng' = rng
    /\ decisions' = Append(decisions, callbacks'[Len(callbacks')] = "accepted")
    /\ UNCHANGED <<stream, rng_selector, first_run>>

\* the acceptance decision, its draw taken from the seeded generator
SeededAccept ==
    /\ pc = "accept"
    /\ IF alg = "SA"
       THEN /\ \E g \in RngGen(stream, rng) : AcceptOutcome(gen_f32(g))
            /\ rng' = rng + 1
       ELSE /\ AcceptOutcome(0)
            /\ rng' = rng
    /\ decisions' = Append(decisions, callbacks'[Len(callbacks')] = "accepted")
    /\ UNCHANGED <<stream, rng_selector, first_run>>

SeededShouldTerminate == ShouldTerminate

\* the first run has returned: a heuristic built as the first one was, its
\* generators seeded as the first one's were, starts on the same solution
Rerun ==
    /\ pc = "done"
    /\ first_run = <<>>
    /\ first_run' = <<[selected |-> selected, proposed |-> proposed,
                       decisions |-> decisions, returned |-> returned]>>
    /\ terminator' = IterationTerminator(terminator.n)
    /\ rng' = 0
    /\ rng_selector' = 0
    /\ decisions' = <<>>
    /\ UNCHANGED <<alg, initial, operators, stream>>
    /\ UNCHANGED <<clockVars, adaptVars, opVars, buildVars>>
    /\ incumbent' = initial
    /\ best_solution' = initial
    /\ candidate' = <<>>
    /\ returned' = <<>>
    /\ pc' = "propose"
    /\ coolings' = 0
    /\ draw' = 0
    /\ proposed' = <<>>
    /\ select_log' = <<>>
    /\ destroyed' = <<>>
    /\ calls' = [propose |-> 0, accept |-> 0, should_terminate |-> 0]
    /\ callbacks' = <<>>
    /\ results' = <<>>
    /\ operator_index' = SequentialSelector_new.operator_index
    /\ objective_best' = SequentialSelector_new.objective_best
    /\ objectives' = <<>>
    /\ selected' = <<>>

SeededNext ==
    \/ SeededPropose
    \/ SeededUpdateBest
    \/ SeededAccept
    \/ SeededShouldTerminate
    \/ Rerun

SpecSeeded == SeededInit /\ [][SeededNext]_vars

----------------------------------------------------------------------------
(* The crate's VNS tests: a SequentialSelector over NeighborsUpUntilN       *)
(* operators and IterationTerminator(iterations_max), from any solution     *)

TestInit ==
    /\ alg = "VNS"
    /\ initial \in Solutions
    /\ terminator = IterationTerminator(iterations_max)
    /\ operators \in Pools("VNS")
    /\ LoopHead
    /\ AdaptIdle
    /\ OpIdle
    /\ BuildIdle
    /\ RngIdle

\* the proposal, in a run that only its termination criterion ends
TestPropose ==
    /\ pc = "propose"
    /\ \E g \in Gens :
        \E o \in propose_candidate(alg, operators,
                    [operator_index |-> operator_index,
                     objective_best |-> objective_best], incumbent, g) :
            ProposeOutcome(o)
    /\ UNCHANGED rngVars

TestUpdateBest == UpdateBest

TestAccept == Accept

TestShouldTerminate == ShouldTerminate

TestNext == TestPropose \/ TestUpdateBest \/ TestAccept \/ TestShouldTerminate

SpecTest == TestInit /\ [][TestNext]_vars

----------------------------------------------------------------------------
(* optimize run by VNS with an AdaptiveSelector over the operators of the   *)
(* crate's VNS tests                                                        *)

\* the operator pools of the crate's VNS tests
VnsTestPools == {<<1>>, <<3>>, <<1, 3>>, <<1, 4>>}

AdaptiveRunInit ==
    /\ alg = "VNS"
    /\ initial \in Solutions
    /\ terminator \in {IterationTerminator(n) : n \in 1..MaxRunIter}
    /\ operators \in VnsTestPools
    /\ ctor = "default_weights"
    /\ weights = [i \in 1..Len(operators) |-> InitialWeight]
    /\ decay \in 0..DecayDen
    /\ rewards = DefaultRewards
    /\ index_last_selection = <<>>
    /\ selects = 0
    /\ feedbacks = 0
    /\ last_call = [name |-> "new", status |-> "", draw |-> 0]
    /\ panicked = FALSE
    /\ LoopHead
    /\ OpIdle
    /\ BuildIdle
    /\ RngIdle

\* VariableNeighborhoodSearch::propose_candidate with the AdaptiveSelector:
\* select with the draw u, then find_best_neighbor of the selected operator
AdaptivePropose ==
    /\ pc = "propose"
    /\ calls.propose < MaxIter
    /\ \E u \in 0..(DrawRes - 1) :
        LET i == AdaptiveSelector_select(weights, u)
            cand == IF i = <<>> THEN <<>>
                    ELSE find_best_neighbor(construct_neighborhood(
                             operators[i[1] + 1], incumbent))
        IN  /\ index_last_selection' =
                    IF i = <<>> THEN index_last_selection ELSE i
            /\ last_call' = [name |-> "select", status |-> "", draw |-> u]
            /\ selected' = selected \o i
            /\ candidate' = cand
            /\ proposed' = proposed \o cand
            /\ panicked' = (cand = <<>>)
            /\ pc' = IF cand = <<>> THEN "panicked" ELSE "improve"
    /\ selects' = selects + 1
    /\ objectives' = Append(objectives, evaluate(incumbent))
    /\ select_log' = <<SelectCall("selector", incumbent)>>
    /\ calls' = [calls EXCEPT !.propose = @ + 1]
    /\ callbacks' = <<>>
    /\ UNCHANGED <<alg, initial, incumbent, best_solution, returned, operators,
                   draw, coolings, destroyed, operator_index, objective_best>>
    /\ UNCHANGED <<termVars, opVars, buildVars, rngVars, ctor, weights, decay,
                   rewards, feedbacks>>

AdaptiveUpdateBest == UpdateBest

AdaptiveAccept == Accept

AdaptiveShouldTerminate == ShouldTerminate

AdaptiveRunNext ==
    \/ AdaptivePropose
    \/ AdaptiveUpdateBest
    \/ AdaptiveAccept
    \/ AdaptiveShouldTerminate

SpecAdaptiveRun == AdaptiveRunInit /\ [][AdaptiveRunNext]_vars

----------------------------------------------------------------------------
(* find_best_neighbor called once on an operator whose neighborhood is any  *)
(* sequence of solutions                                                    *)

OpInit ==
    /\ neighborhood \in SeqUpTo(Solutions, MaxNeighbors)
    /\ winner = <<>>
    /\ SeqIdle
    /\ TermIdle
    /\ LoopIdle
    /\ AdaptIdle
    /\ BuildIdle
    /\ RngIdle

\* operator.find_best_neighbor(solution)
FindBestNeighbor ==
    /\ winner = <<>>
    /\ ~panicked
    /\ winner' = find_best_neighbor(neighborhood)
    /\ panicked' = (winner' = <<>>)
    /\ UNCHANGED <<neighborhood, ctor, weights, decay, rewards,
                   index_last_selection, selects, feedbacks, last_call>>
    /\ UNCHANGED <<termVars, seqVars, loopVars, buildVars, rngVars>>

OpNext == FindBestNeighbor

SpecOp == OpInit /\ [][OpNext]_vars

----------------------------------------------------------------------------
(* A builder: setters are called in any order, any number of times, and     *)
(* then build()                                                             *)

BuildInit ==
    /\ \E a \in {"VNS", "SA", "LNS"} : builder = NewBuilder(a)
    /\ setters = <<>>
    /\ built = ""
    /\ TermBuildIdle
    /\ SeqIdle
    /\ TermIdle
    /\ LoopIdle
    /\ AdaptIdle
    /\ OpIdle
    /\ RngIdle

\* builder.selector(..), builder.terminator(..), ..
Setter ==
    /\ built = ""
    /\ Len(setters) < MaxSetters
    /\ \E f \in BuilderSetters(builder.alg) :
        /\ builder' = BuilderSet(builder, f)
        /\ setters' = Append(setters, f)
    /\ UNCHANGED built
    /\ UNCHANGED <<tbVars, termVars, seqVars, adaptVars, loopVars, opVars,
                   rngVars>>

\* builder.build()
Build ==
    /\ built = ""
    /\ built' = build(builder)
    /\ UNCHANGED <<builder, setters>>
    /\ UNCHANGED <<tbVars, termVars, seqVars, adaptVars, loopVars, opVars,
                   rngVars>>

BuildNext == Setter \/ Build

SpecBuild == BuildInit /\ [][BuildNext]_vars

----------------------------------------------------------------------------
(* optimize run by VNS with a TimeTerminator while the clock advances       *)

\* TimeTerminator::new(d) called when the clock shows `now`
TimedInit ==
    /\ alg = "VNS"
    /\ initial \in Solutions
    /\ operators \in VnsTestPools
    /\ LoopHead
    /\ \E d \in 0..MaxDuration : terminator = TimeTerminator(now + d)
    /\ AdaptIdle
    /\ OpIdle
    /\ BuildIdle
    /\ RngIdle

\* time passes, at any point of the run
Tick ==
    /\ now < MaxTime
    /\ now' = now + 1
    /\ UNCHANGED <<terminator, results, permuted, results_permuted>>
    /\ UNCHANGED <<seqVars, adaptVars, loopVars, opVars, buildVars, rngVars>>

TimedPropose == Propose

TimedUpdateBest == UpdateBest

TimedAccept == Accept

TimedShouldTerminate == ShouldTerminate

TimedNext ==
    \/ Tick
    \/ TimedPropose
    \/ TimedUpdateBest
    \/ TimedAccept
    \/ TimedShouldTerminate

SpecTimed == TimedInit /\ [][TimedNext]_vars

----------------------------------------------------------------------------
(* A TerminatorBuilder: criteria are added and all() / any() are called in  *)
(* any order, and then build()                                              *)

TermBuildInit ==
    /\ term_builder = Terminator_builder
    /\ term_calls = <<>>
    /\ builder = [alg |-> "VNS", fields |-> {}]
    /\ setters = <<>>
    /\ built = ""
    /\ TermIdle
    /\ SeqIdle
    /\ LoopIdle
    /\ AdaptIdle
    /\ OpIdle
    /\ RngIdle

\* the last method called on the builder
LastTermCall ==
    IF term_calls = <<>> THEN "" ELSE term_calls[Len(term_calls)].name

\* the builder can be called: build(self) has not consumed it
TermBuilderOpen ==
    /\ Len(term_calls) < MaxBuilderCalls
    /\ LastTermCall # "build"

\* the call named name has made the builder b, adding the criteria in added
TermBuilderCall(name, b, added) ==
    /\ term_builder' = b
    /\ term_calls' = Append(term_calls, [name |-> name, added |-> added])
    /\ UNCHANGED <<builder, setters, built>>
    /\ UNCHANGED <<termVars, seqVars, adaptVars, loopVars, opVars, rngVars>>

\* builder.criterium(IterationTerminator::new(n))
TermCriterium ==
    /\ TermBuilderOpen
    /\ \E n \in 1..MaxTarget :
        TermBuilderCall("criterium",
            TerminatorBuilder_criterium(term_builder, IterationTerminator(n)),
            <<IterationTerminator(n)>>)

\* builder.iterations(n)
TermIterations ==
    /\ TermBuilderOpen
    /\ \E n \in 1..MaxTarget :
        TermBuilderCall("iterations",
            TerminatorBuilder_iterations(term_builder, n),
            <<IterationTerminator(n)>>)

\* builder.time_max(d)
TermTimeMax ==
    /\ TermBuilderOpen
    /\ \E d \in 0..MaxDuration :
        TermBuilderCall("time_max",
            TerminatorBuilder_time_max(term_builder, d),
            <<TimeTerminator(now + d)>>)

\* builder.all()
TermAll ==
    /\ TermBuilderOpen
    /\ TermBuilderCall("all", TerminatorBuilder_all(term_builder), <<>>)

\* builder.any()
TermAny ==
    /\ TermBuilderOpen
    /\ TermBuilderCall("any", TerminatorBuilder_any(term_builder), <<>>)

\* builder.build()
TermBuild ==
    /\ LastTermCall # "build"
    /\ terminator' = TerminatorBuilder_build(term_builder)
    /\ term_calls' = Append(term_calls, [name |-> "build", added |-> <<>>])
    /\ UNCHANGED <<term_builder, builder, setters, built, results>>
    /\ UNCHANGED <<clockVars, seqVars, adaptVars, loopVars, opVars, rngVars>>

TermBuildNext ==
    \/ TermCriterium
    \/ TermIterations
    \/ TermTimeMax
    \/ TermAll
    \/ TermAny
    \/ TermBuild

SpecTermBuild == TermBuildInit /\ [][TermBuildNext]_vars

----------------------------------------------------------------------------
(* A criterion called repeatedly, as should_terminate does once per loop   *)
(* iteration.                                                              *)

TermInit ==
    /\ terminator \in Primitives \cup Composites
    /\ results = <<>>
    /\ ClockIdle
    /\ SeqIdle
    /\ AdaptIdle
    /\ LoopIdle
    /\ OpIdle
    /\ BuildIdle
    /\ RngIdle

Terminate ==
    /\ Len(results) < MaxCalls
    /\ LET r == TerminationCriteria_terminate(terminator)
       IN  /\ terminator' = r.state
           /\ results' = Append(results, r.result)
    /\ UNCHANGED <<clockVars, seqVars, adaptVars, loopVars, opVars, buildVars,
                   rngVars>>

TermNext == Terminate

SpecTerm == TermInit /\ [][TermNext]_vars

----------------------------------------------------------------------------
(* Two composites of the same mode over the same sub-criteria, listed in    *)
(* different orders, called side by side while the clock advances           *)

\* the sub-criteria of the composites: iteration counters and time criteria
MixedPrimitives ==
    {IterationTerminator(n) : n \in 1..MaxTarget}
        \cup {TimeTerminator(d) : d \in 0..MaxDuration}

\* the orders in which a list of n sub-criteria can be given
SubOrders(n) ==
    {f \in [1..n -> 1..n] : \A i, j \in 1..n : f[i] = f[j] => i = j}

PermutedInit ==
    /\ \E subs \in SeqUpTo(MixedPrimitives, MaxSubs) :
        \E f \in SubOrders(Len(subs)) :
            LET other == [i \in 1..Len(subs) |-> subs[f[i]]]
            IN  \/ /\ terminator = OrTerminator(subs)
                   /\ permuted = OrTerminator(other)
                \/ /\ terminator = AndTerminator(subs)
                   /\ permuted = AndTerminator(other)
    /\ results = <<>>
    /\ results_permuted = <<>>
    /\ now = 0
    /\ SeqIdle
    /\ AdaptIdle
    /\ LoopIdle
    /\ OpIdle
    /\ BuildIdle
    /\ RngIdle

\* terminate() on each of the two composites, at the same time
TerminateBoth ==
    /\ Len(results) < MaxCalls
    /\ LET r == TerminationCriteria_terminate(terminator)
           q == TerminationCriteria_terminate(permuted)
       IN  /\ terminator' = r.state
           /\ results' = Append(results, r.result)
           /\ permuted' = q.state
           /\ results_permuted' = Append(results_permuted, q.result)
    /\ UNCHANGED now
    /\ UNCHANGED <<seqVars, adaptVars, loopVars, opVars, buildVars, rngVars>>

PermutedTick == Tick

PermutedNext == TerminateBoth \/ PermutedTick

SpecPermuted == PermutedInit /\ [][PermutedNext]_vars

----------------------------------------------------------------------------
(* Properties of the termination criteria, checked under SpecTerm *)

\* the targets of the sub-criteria of a composite
Targets(t) == {t.terminators[i].n : i \in 1..Len(t.terminators)}
MinOf(S) == CHOOSE x \in S : \A y \in S : x <= y
MaxOf(S) == CHOOSE x \in S : \A y \in S : x >= y

\* a composite over at least one IterationTerminator, each with a trip
\* iteration (a target n >= 1)
KnownTrips(t) ==
    /\ Len(t.terminators) >= 1
    /\ \A n \in Targets(t) : n >= 1

\* C4: an IterationTerminator with target n returns false on each of the
\* first n-1 calls and true on the n-th call; its counter starts at 0 and
\* grows by exactly one per call (so it equals the number of calls made).
C4_IterationExact ==
    terminator.kind = "Iteration" =>
        /\ terminator.iteration = Len(results)
        /\ \A k \in 1..Len(results) :
            /\ k < terminator.n => ~results[k]
            /\ k = terminator.n => results[k]

\* C4 witness: a terminator with target 3 has just returned true on call 3
\* after two calls that returned false
C4_Witness ==
    /\ terminator.kind = "Iteration"
    /\ terminator.n = 3
    /\ results = <<FALSE, FALSE, TRUE>>

\* C6: an OrTerminator over IterationTerminators with targets n1..nk returns
\* false on every call before call min(n1..nk) and true on call min(n1..nk),
\* in whatever order the sub-criteria are listed.
C6_OrTripsAtMin ==
    (terminator.kind = "Or" /\ KnownTrips(terminator)) =>
        \A k \in 1..Len(results) :
            /\ k < MinOf(Targets(terminator)) => ~results[k]
            /\ k = MinOf(Targets(terminator)) => results[k]

\* C6 witness: an OR over targets (3, 2), the smaller one listed last, has
\* returned false once and then true on call 2
C6_Witness ==
    /\ terminator.kind = "Or"
    /\ Len(terminator.terminators) = 2
    /\ terminator.terminators[1].n = 3
    /\ terminator.terminators[2].n = 2
    /\ results = <<FALSE, TRUE>>

\* C7: an AndTerminator over IterationTerminators with targets n1..nk returns
\* false on every call before call max(n1..nk) and true on call max(n1..nk),
\* in whatever order the sub-criteria are listed.
C7_AndTripsAtMax ==
    (terminator.kind = "And" /\ KnownTrips(terminator)) =>
        \A k \in 1..Len(results) :
            /\ k < MaxOf(Targets(terminator)) => ~results[k]
            /\ k = MaxOf(Targets(terminator)) => results[k]

\* C8: every call of a composite's terminate evaluates every sub-criterion
\* exactly once: after k calls each sub-criterion's counter equals k.
C8_NoShortCircuit ==
    terminator.kind \in {"Or", "And"} =>
        \A i \in 1..Len(terminator.terminators) :
            terminator.terminators[i].iteration = Len(results)

----------------------------------------------------------------------------
(* Properties of the sequential selector, checked under SpecSeq *)

\* the lowest objective among the first k solutions passed to select, or
\* +infinity when k = 0
BestBefore(k) ==
    IF k = 0 THEN INFINITY
    ELSE CHOOSE x \in {objectives[j] : j \in 1..k} :
            \A j \in 1..k : x <= objectives[j]

\* C9: the selector starts with cursor 0 and best objective +infinity; a
\* call with an objective strictly below the best seen stores it and returns
\* operator 0, any other call returns operator (cursor + 1) mod count. So a
\* strictly decreasing objective sequence selects operator 0 on every call
\* and a constant one selects (k - 1) mod count on call k.
C9_SequentialSelect ==
    LET count == Len(operators)
        n == Len(objectives)
        cursor(k) == IF k = 0 THEN 0 ELSE selected[k]
    IN  /\ Len(selected) = n
        /\ operator_index = cursor(n)
        /\ objective_best = BestBefore(n)
        /\ \A k \in 1..n :
            selected[k] = IF objectives[k] < BestBefore(k - 1) THEN 0
                          ELSE (cursor(k - 1) + 1) % count
        /\ (\A k \in 2..n : objectives[k] < objectives[k - 1]) =>
                \A k \in 1..n : selected[k] = 0
        /\ (\A k \in 2..n : objectives[k] = objectives[k - 1]) =>
                \A k \in 1..n : selected[k] = (k - 1) % count

\* C9 witness: four calls with the same objective on a pool of three
\* operators went through operators 0, 1, 2 and wrapped to 0
C9_Witness ==
    /\ Len(operators) = 3
    /\ objectives = <<7, 7, 7, 7>>
    /\ selected = <<0, 1, 2, 0>>

----------------------------------------------------------------------------
(* Properties of the adaptive selector, checked under SpecAdapt *)

\* C10: feedback(status) changes only the weight of the last-selected
\* operator, to (1 - decay) * w + decay * reward(status) with the default
\* rewards ImprovedBest = 3, Accept = 1, Reject = 0, and changes nothing when
\* no operator has been selected yet.  With decay 1 and weights [1,1,1],
\* ImprovedBest on index 0 gives [3,1,1] and then Accept on index 2 gives
\* [3,1,1].
C10_FeedbackFrame ==
    [][(feedbacks' = feedbacks + 1 /\ ctor = "default_weights") =>
        LET status == last_call'.status
            reward == CASE status = "ImprovedBest" -> 3
                        [] status = "Accept" -> 1
                        [] status = "Reject" -> 0
        IN  /\ last_call'.name = "feedback"
            /\ Len(weights') = Len(weights)
            /\ index_last_selection' = index_last_selection
            /\ index_last_selection = <<>> => weights' = weights
            /\ index_last_selection # <<>> =>
                LET i == index_last_selection[1] + 1
                IN  /\ \A j \in 1..Len(weights) : j # i => weights'[j] = weights[j]
                    /\ DecayDen * weights'[i] =
                          (DecayDen - decay) * weights[i] + decay * reward * Scale
            /\ (/\ decay = DecayDen
                /\ weights = <<1 * Scale, 1 * Scale, 1 * Scale>>
                /\ index_last_selection = <<0>>
                /\ status = "ImprovedBest") =>
                    weights' = <<3 * Scale, 1 * Scale, 1 * Scale>>
            /\ (/\ decay = DecayDen
                /\ weights = <<3 * Scale, 1 * Scale, 1 * Scale>>
                /\ index_last_selection = <<2>>
                /\ status = "Accept") =>
                    weights' = <<3 * Scale, 1 * Scale, 1 * Scale>>
      ]_vars

\* C10 witness: with decay 1, after ImprovedBest was fed back for index 0,
\* index 2 was selected and Accept fed back, leaving the weights [3,1,1]
C10_Witness ==
    /\ decay = DecayDen
    /\ feedbacks = 2
    /\ index_last_selection = <<2>>
    /\ last_call = [name |-> "feedback", status |-> "Accept", draw |-> 0]
    /\ weights = <<3 * Scale, 1 * Scale, 1 * Scale>>

----------------------------------------------------------------------------
(* Properties of optimize, checked under SpecLoop *)

\* C1: from one step of optimize to the next the objective of best_solution
\* never increases, and best_solution is replaced only by the current
\* candidate, whose objective is strictly lower than that of the best
\* solution it replaces; for any proposals and any acceptance decisions.
C1_MonotonicBest ==
    [][/\ evaluate(best_solution') <= evaluate(best_solution)
       /\ best_solution' # best_solution =>
            /\ candidate # <<>>
            /\ best_solution' = candidate[1]
            /\ evaluate(candidate[1]) < evaluate(best_solution)
      ]_vars

\* C1 witness: the heuristic with arbitrary hooks has just replaced its best
\* solution for the second time in a run
C1_Witness ==
    /\ alg = "ANY"
    /\ pc = "accept"
    /\ callbacks = <<"improved_best">>
    /\ Len(proposed) >= 2
    /\ evaluate(best_solution) < evaluate(proposed[1])
    /\ evaluate(proposed[1]) < evaluate(initial)

\* C2: at every step of optimize best_solution.evaluate() <=
\* incumbent.evaluate(), for every algorithm, and before the first proposal
\* both are the initial solution.
C2_BestLeIncumbent ==
    /\ evaluate(best_solution) <= evaluate(incumbent)
    /\ calls.propose = 0 => (best_solution = initial /\ incumbent = initial)

\* C2 witness: SA has just accepted a candidate that is worse than its
\* incumbent was, so the incumbent is now strictly worse than the best
C2_Witness ==
    /\ alg = "SA"
    /\ pc = "terminate"
    /\ callbacks = <<"accepted">>
    /\ incumbent = candidate[1]
    /\ evaluate(incumbent) > evaluate(best_solution)

\* the solutions seen by a run, in order: the initial one, then the
\* candidates proposed
Seen == <<initial>> \o proposed

\* C3: when optimize stops it returns best_solution; the returned solution's
\* objective is the minimum over the initial solution and every candidate
\* proposed, and it is the earliest of them that reached that minimum.
C3_ReturnsBest ==
    pc = "done" =>
        /\ returned = <<best_solution>>
        /\ \E k \in 1..Len(Seen) :
            /\ returned[1] = Seen[k]
            /\ \A j \in 1..Len(Seen) : evaluate(Seen[k]) <= evaluate(Seen[j])
            /\ \A j \in 1..(k - 1) : evaluate(Seen[j]) > evaluate(Seen[k])

\* C3 witness: a run has stopped with an incumbent worse than the solution
\* returned, which was the first of two proposals of the lowest objective
C3_Witness ==
    /\ pc = "done"
    /\ evaluate(incumbent) > evaluate(returned[1])
    /\ Len(proposed) = 3
    /\ returned[1] = proposed[1]
    /\ proposed[2] # proposed[1]
    /\ evaluate(proposed[2]) = evaluate(proposed[1])

\* C5: with IterationTerminator(n), n >= 1, as the only criterion, optimize
\* runs exactly n iterations: propose_candidate, accept_candidate and
\* should_terminate are each called once per iteration, in this order, never
\* more than n times, and optimize returns right after the n-th
\* should_terminate.
C5_ExactlyNIterations ==
    (terminator.kind = "Iteration" /\ terminator.n >= 1) =>
        /\ calls.propose <= terminator.n
        /\ calls.should_terminate <= calls.accept
        /\ calls.accept <= calls.propose
        /\ calls.propose <= calls.should_terminate + 1
        /\ (pc = "accept" \/ pc = "improve") => calls.accept = calls.propose - 1
        /\ pc = "terminate" =>
            (calls.accept = calls.propose
                /\ calls.should_terminate = calls.propose - 1)
        /\ pc = "propose" =>
            (calls.should_terminate = calls.propose
                /\ calls.should_terminate < terminator.n)
        /\ pc = "done" <=> calls.should_terminate = terminator.n
        /\ pc = "done" =>
            /\ calls.propose = terminator.n
            /\ calls.accept = terminator.n
            /\ returned # <<>>

\* C5 witness: a run with IterationTerminator(3) has returned after three
\* calls of each hook
C5_Witness ==
    /\ terminator.kind = "Iteration"
    /\ terminator.n = 3
    /\ pc = "done"
    /\ calls = [propose |-> 3, accept |-> 3, should_terminate |-> 3]

----------------------------------------------------------------------------
(* Properties of simulated annealing, checked under SpecLoop *)

\* the outcome of the accept_candidate call a step makes
AcceptStep == pc = "accept" /\ pc' = "terminate"
Accepted == callbacks'[Len(callbacks')] = "accepted"

\* C11: SA's accept_candidate accepts every candidate that strictly improves
\* on the incumbent; a candidate worse by D >= 0 is accepted iff the draw r
\* satisfies r <= exp(-D/T) with T the temperature, so a strictly worse
\* candidate is rejected for the draws above that probability.  As
\* 1 - y <= exp(-y) <= 1 / (1 + y) for y >= 0: a draw r > 1 / (1 + D/T)
\* rejects and a draw r <= 1 - D/T accepts.
C11_SAAcceptance ==
    [][(alg = "SA" /\ AcceptStep) =>
        LET D == evaluate(candidate[1]) - evaluate(incumbent)
            T == temperature(coolings)
        IN  /\ D < 0 => Accepted
            /\ (D >= 0 /\ draw' * (T.num + D * T.den) > DrawRes * T.num)
                    => ~Accepted
            /\ (D >= 0 /\ draw' * T.num <= DrawRes * (T.num - D * T.den))
                    => Accepted
      ]_vars

\* C12: in SA cool() is invoked exactly once per loop iteration and only
\* after that iteration's acceptance decision: the temperature read by
\* accept_candidate in iteration k is the one after k-1 coolings (the first
\* acceptance decision uses the initial temperature).
C12_CoolAfterAccept ==
    alg = "SA" =>
        /\ coolings <= calls.propose
        /\ pc = "accept" => coolings = calls.propose - 1

----------------------------------------------------------------------------
(* Properties of the algorithms' hooks, checked under SpecLoop *)

\* the propose_candidate call a step makes, when it returns
ProposeStep == pc = "propose" /\ pc' = "improve"

\* the solutions at distance n of a solution in the objective sequence
AtDistance(n, solution) ==
    {x \in Solutions : x = solution - n \/ x = solution + n}

\* C13: VNS's propose_candidate calls the selector exactly once, with the
\* incumbent, and returns a lowest-objective neighbor of the incumbent under
\* the selected operator; VNS's accept_candidate returns true iff the
\* candidate's objective is strictly below the incumbent's (an equal
\* objective is rejected), so the incumbent's objective strictly decreases
\* whenever the incumbent changes.
C13_VNSHooks ==
    [][alg = "VNS" =>
        /\ ProposeStep =>
            /\ Len(selected') = Len(selected) + 1
            /\ objectives' = Append(objectives, evaluate(incumbent))
            /\ incumbent' = incumbent
            /\ LET n == operators[selected'[Len(selected')] + 1]
               IN  /\ candidate'[1] \in AtDistance(n, incumbent)
                   /\ \A x \in AtDistance(n, incumbent) :
                        evaluate(candidate'[1]) <= evaluate(x)
        /\ AcceptStep =>
            /\ Accepted <=> evaluate(candidate[1]) < evaluate(incumbent)
            /\ Accepted => incumbent' = candidate[1]
            /\ ~Accepted => incumbent' = incumbent
        /\ pc # "propose" => selected' = selected
        /\ incumbent' # incumbent => evaluate(incumbent') < evaluate(incumbent)
      ]_vars

\* C13 witness: VNS moved off its initial solution and has just rejected the
\* best neighbor under its second operator, whose objective equals the
\* incumbent's
C13_Witness ==
    /\ alg = "VNS"
    /\ pc = "terminate"
    /\ incumbent # initial
    /\ selected[Len(selected)] = 1
    /\ callbacks = <<"rejected">>
    /\ candidate[1] # incumbent
    /\ evaluate(candidate[1]) = evaluate(incumbent)

\* C14: LNS's propose_candidate calls the destroyer selector and then the
\* repairer selector, each exactly once and with the incumbent, applies the
\* selected destroyer to the incumbent and the selected repairer to the
\* destroyed result, and returns the repaired solution; LNS's
\* accept_candidate returns true iff the candidate's objective is strictly
\* lower than the incumbent's.
C14_LNSHooks ==
    [][alg = "LNS" =>
        /\ ProposeStep =>
            /\ select_log' =
                <<[selector |-> "selector_destroyer",
                   objective |-> evaluate(incumbent)],
                  [selector |-> "selector_repairer",
                   objective |-> evaluate(incumbent)]>>
            /\ Len(destroyed') = 1
            /\ Abs(destroyed'[1] - incumbent) = 1
            /\ Abs(candidate'[1] - destroyed'[1]) = 1
            /\ incumbent' = incumbent
        /\ pc # "propose" => (select_log' = select_log /\ destroyed' = destroyed)
        /\ AcceptStep =>
            /\ Accepted <=> evaluate(candidate[1]) < evaluate(incumbent)
            /\ Accepted => incumbent' = candidate[1]
            /\ ~Accepted => incumbent' = incumbent
      ]_vars

\* C14 witness: LNS destroyed the incumbent at index 5 into index 6 and
\* repaired that into index 7, two steps away from the incumbent, and has
\* accepted it
C14_Witness ==
    /\ alg = "LNS"
    /\ pc = "terminate"
    /\ Len(select_log) = 2
    /\ initial = 5
    /\ destroyed = <<6>>
    /\ candidate = <<7>>
    /\ incumbent = 7
    /\ callbacks = <<"improved_best", "accepted">>

----------------------------------------------------------------------------
(* Properties of find_best_neighbor, checked under SpecOp *)

\* C15: find_best_neighbor returns an element of the neighborhood of lowest
\* objective, on ties the first such element in enumeration order; when the
\* neighborhood yields no element it panics instead of returning a solution.
C15_BestNeighbor ==
    [][IF neighborhood = <<>>
       THEN panicked' /\ winner' = <<>>
       ELSE /\ ~panicked'
            /\ \E k \in 1..Len(neighborhood) :
                /\ winner' = <<neighborhood[k]>>
                /\ \A j \in 1..Len(neighborhood) :
                    evaluate(neighborhood[k]) <= evaluate(neighborhood[j])
                /\ \A j \in 1..(k - 1) :
                    evaluate(neighborhood[j]) > evaluate(neighborhood[k])
      ]_vars

\* C15 witness: of the neighborhood at indices 4, 1, 3 with objectives
\* 9, 8, 8 the call returned index 1, the first of the two lowest
C15_Witness ==
    /\ neighborhood = <<4, 1, 3>>
    /\ winner = <<1>>

----------------------------------------------------------------------------
(* Properties of the builders, checked under SpecBuild *)

\* the setters called so far
Called == {setters[i] : i \in 1..Len(setters)}

\* C16: build() panics when a mandatory component was not set (selector or
\* terminator for VNS; rng, selector, terminator or cooling schedule for SA;
\* destroyer selector, repairer selector, terminator or rng for LNS), and
\* succeeds when all of them were set, in whatever order the setters were
\* called; no heuristic exists after a panic.
C16_BuildRequiresAll ==
    built # "" =>
        LET required ==
                CASE builder.alg = "VNS" -> {"selector", "terminator"}
                  [] builder.alg = "SA" ->
                        {"rng", "selector", "terminator", "cooling_schedule"}
                  [] builder.alg = "LNS" ->
                        {"selector_destroyer", "selector_repairer",
                         "terminator", "rng"}
        IN  built = "built" <=> required \subseteq Called

\* C16 witness: an SA builder whose setters were called in an order other
\* than the one build() reads the fields in, one of them twice, has built
C16_Witness ==
    /\ builder.alg = "SA"
    /\ setters = <<"cooling_schedule", "terminator", "selector", "rng",
                   "terminator">>
    /\ built = "built"

----------------------------------------------------------------------------
(* Properties of seeded runs, checked under SpecSeeded *)

IsPrefix(a, b) == Len(a) <= Len(b) /\ \A i \in 1..Len(a) : a[i] = b[i]

----------------------------------------------------------------------------
(* The end-to-end scenarios, checked under SpecTest *)

\* C18: on the objective sequence [9,8,7,8,9,7,5,0], starting at index 0,
\* VNS with a SequentialSelector over one NeighborsUpUntilN operator and
\* IterationTerminator(10) returns index 2 for n = 1 and index 6 for n = 3.
C18_SingleOperator ==
    (/\ numbers = <<9, 8, 7, 8, 9, 7, 5, 0>>
     /\ initial = 0
     /\ terminator.n = 10
     /\ operators \in {<<1>>, <<3>>}) =>
        /\ pc # "panicked"
        /\ calls.propose <= 10
        /\ pc = "done" =>
            /\ calls.should_terminate = 10
            /\ operators = <<1>> => returned = <<2>>
            /\ operators = <<3>> => returned = <<6>>

\* C18 witness: the run with n = 3 has returned index 6
C18_Witness ==
    /\ initial = 0
    /\ operators = <<3>>
    /\ pc = "done"
    /\ returned = <<6>>

\* C19: on the same sequence, starting at index 0, VNS with a
\* SequentialSelector over two NeighborsUpUntilN operators and
\* IterationTerminator(10) returns index 2 for the radii (1, 3) and index 7
\* for the radii (1, 4); the second operator is tried only after the first
\* failed to improve, and an improvement restarts from the first operator.
C19_TwoOperators ==
    (/\ numbers = <<9, 8, 7, 8, 9, 7, 5, 0>>
     /\ initial = 0
     /\ terminator.n = 10
     /\ operators \in {<<1, 3>>, <<1, 4>>}) =>
        /\ pc # "panicked"
        /\ \A k \in 1..Len(selected) :
            selected[k] =
                IF k = 1 \/ objectives[k] < objectives[k - 1] THEN 0
                ELSE 1 - selected[k - 1]
        /\ pc = "done" =>
            /\ calls.should_terminate = 10
            /\ operators = <<1, 3>> => returned = <<2>>
            /\ operators = <<1, 4>> => returned = <<7>>

\* C19 witness: the run with the radii (1, 4) has returned index 7, having
\* gone to its second operator at index 2 and back to the first after the
\* improvement
C19_Witness ==
    /\ initial = 0
    /\ operators = <<1, 4>>
    /\ pc = "done"
    /\ returned = <<7>>
    /\ selected[4] = 1
    /\ selected[5] = 0
    /\ proposed[4] = 6

----------------------------------------------------------------------------
(* Properties of VNS with the adaptive selector, checked under              *)
(* SpecAdaptiveRun                                                          *)

\* C20: when a loop algorithm runs with the Adaptive selector, the outcome
\* of each round is fed back into the selector and updates the weight of the
\* operator selected in that round.  For a round whose candidate is
\* rejected, the only outcome of the round is Rejected: its reward 0 is
\* blended into the weight of the selected operator, and the other weights
\* stay.
C20_RoundFeedsBack ==
    [][(AcceptStep /\ callbacks' = <<"rejected">>) =>
        LET i == index_last_selection[1] + 1
        IN  /\ DecayDen * weights'[i] = (DecayDen - decay) * weights[i]
            /\ \A j \in 1..Len(weights) : j # i => weights'[j] = weights[j]
      ]_vars

----------------------------------------------------------------------------
(* Properties of the adaptive selector for any constructor arguments,       *)
(* checked under SpecAnyAdapt                                               *)

\* C21: after any sequence of operator additions, select calls and feedback
\* calls on an adaptive selector built with default_weights or
\* custom_weights, for any decay and rewards the constructors accept, every
\* weight is >= 0, and an operator that was just added has weight 1.
C21_WeightsNonNegative ==
    /\ \A i \in 1..Len(weights) : weights[i] >= 0
    /\ last_call.name = "operator" => weights[Len(weights)] = 1 * Scale

----------------------------------------------------------------------------
(* Properties of AdaptiveSelector::select, checked under SpecAdapt *)

\* C22: select takes one uniform draw of [0, 1) scaled by the sum of the
\* weights, scans the operators in index order accumulating their weights,
\* returns the first operator whose running sum meets or exceeds the scaled
\* draw, and records its index as the last selection; it leaves the weights
\* alone, and it fails only when no running sum reaches the draw, which
\* happens on an empty pool.
C22_SelectScan ==
    last_call.name = "select" =>
        LET u == last_call.draw
            total == SumTo(weights, Len(weights))
            hits == {i \in 1..Len(weights) :
                        u * total <= SumTo(weights, i) * DrawRes}
        IN  /\ u \in 0..(DrawRes - 1)
            /\ panicked <=> hits = {}
            /\ panicked <=> weights = <<>>
            /\ ~panicked => index_last_selection = <<MinOf(hits) - 1>>

\* C22 witness: on the weights [3, 1, 1] a draw scaled to (3, 4] selected
\* the operator at index 1
C22_Witness ==
    /\ last_call.name = "select"
    /\ weights = <<3 * Scale, 1 * Scale, 1 * Scale>>
    /\ last_call.draw * 5 > 3 * DrawRes
    /\ last_call.draw * 5 <= 4 * DrawRes
    /\ index_last_selection = <<1>>

----------------------------------------------------------------------------
(* Further properties of the termination criteria, checked under SpecTerm *)

\* C23: iteration-count termination is a one-way ratchet: once an
\* IterationTerminator has returned true, every later call of terminate
\* returns true as well.
C23_IterationRatchet ==
    terminator.kind = "Iteration" =>
        \A k \in 1..Len(results) :
            results[k] => \A j \in k..Len(results) : results[j]

----------------------------------------------------------------------------
(* Properties of the TerminatorBuilder, checked under SpecTermBuild *)

\* the criteria added by the first k calls, in the order of the calls
RECURSIVE AddedBy(_)
AddedBy(k) == IF k = 0 THEN <<>> ELSE AddedBy(k - 1) \o term_calls[k].added

\* the positions of the all() and any() calls
ModeCalls == {i \in 1..Len(term_calls) : term_calls[i].name \in {"all", "any"}}

\* C24: build() yields an OR composite of the added criteria by default, an
\* AND composite when the last of the all() / any() calls is all() and an OR
\* composite when it is any(); the composite holds the criteria in the order
\* in which they were added.
C24_BuilderAggregation ==
    LastTermCall = "build" =>
        /\ terminator.kind =
                IF ModeCalls = {} THEN "Or"
                ELSE IF term_calls[MaxOf(ModeCalls)].name = "all" THEN "And"
                ELSE "Or"
        /\ terminator.terminators = AddedBy(Len(term_calls))

\* C24 witness: iterations(2), any(), time_max(1), all(), build() gave an AND
\* composite over the iteration criterion followed by the time criterion
C24_Witness ==
    /\ Len(term_calls) = 5
    /\ [i \in 1..5 |-> term_calls[i].name] =
            <<"iterations", "any", "time_max", "all", "build">>
    /\ terminator = AndTerminator(<<IterationTerminator(2), TimeTerminator(1)>>)

----------------------------------------------------------------------------
(* Properties of optimize with a TimeTerminator, checked under SpecTimed *)

\* the step is the should_terminate call that ends an iteration
ShouldTerminateStep == calls'.should_terminate = calls.should_terminate + 1

\* C25: a TimeTerminator returns true iff the current time is >= the
\* deadline, which is fixed at construction (construction time + duration).
\* optimize consults it only at the end of an iteration: the run ends only
\* there, after at least one full iteration even with a zero duration, and
\* it ends at the first end of an iteration at which now >= deadline.
C25_TimeAtBoundary ==
    [][/\ terminator' = terminator
       /\ terminator.time_end \in 0..MaxDuration
       /\ ShouldTerminateStep =>
            /\ results' = Append(results, now >= terminator.time_end)
            /\ (pc' = "done") <=> (now >= terminator.time_end)
       /\ (pc' = "done" /\ pc # "done") =>
            /\ ShouldTerminateStep
            /\ calls.propose >= 1
            /\ calls.accept = calls.propose
            /\ \A k \in 1..Len(results) : ~results[k]
      ]_vars

\* C25 witness: with a deadline of 2 ticks the first iteration ended before
\* the deadline and the run went on; the deadline passed during the second
\* iteration, which was completed before the run stopped
C25_Witness ==
    /\ terminator.kind = "Time"
    /\ terminator.time_end = 2
    /\ results = <<FALSE, TRUE>>
    /\ calls.accept = 2
    /\ now = 2
    /\ pc = "done"

----------------------------------------------------------------------------
(* The assertions of the crate-root test adaptivity_core, checked under     *)
(* SpecAdapt                                                                *)

\* the step is a feedback call
FeedbackStep == feedbacks' = feedbacks + 1

\* C26: with the default rewards, three options and decay 1, feedback adds
\* the reward of the outcome to the weight of the last-selected option: from
\* the weights [1,1,1], ImprovedBest with last selection 0 gives [4,1,1], and
\* from there Accept with last selection 2 gives [4,1,2].
C26_AdaptivityCore ==
    [][(/\ FeedbackStep
        /\ ctor = "default_weights"
        /\ decay = DecayDen
        /\ Len(weights) = 3) =>
            /\ (/\ weights = <<1 * Scale, 1 * Scale, 1 * Scale>>
                /\ index_last_selection = <<0>>
                /\ last_call'.status = "ImprovedBest") =>
                    weights' = <<4 * Scale, 1 * Scale, 1 * Scale>>
            /\ (/\ weights = <<4 * Scale, 1 * Scale, 1 * Scale>>
                /\ index_last_selection = <<2>>
                /\ last_call'.status = "Accept") =>
                    weights' = <<4 * Scale, 1 * Scale, 2 * Scale>>
      ]_vars

----------------------------------------------------------------------------
(* Further properties of simulated annealing and of the loop, checked under *)
(* SpecLoop                                                                 *)

\* C27: whenever delta = incumbent objective - candidate objective is < 0,
\* SA's acceptance-probability function returns exactly 1, at every
\* temperature: the exponent x of its result exp(x) is 0.
C27_ProbabilityOne ==
    [][(/\ AcceptStep
        /\ alg = "SA"
        /\ evaluate(incumbent) - evaluate(candidate[1]) < 0) =>
            compute_probability(temperature(coolings), evaluate(incumbent),
                                evaluate(candidate[1])).num = 0
      ]_vars

\* C28: each loop round is classified by exactly one outcome: between the
\* proposal and the termination check optimize emits exactly one of the
\* callbacks improved_best, accepted and rejected.
C28_OneCallbackPerRound ==
    pc = "terminate" =>
        /\ Len(callbacks) = 1
        /\ callbacks[1] \in {"improved_best", "accepted", "rejected"}

----------------------------------------------------------------------------
(* Further properties of the sequential selector, checked under SpecSeq *)

\* call k of select sees an improvement: its objective is strictly below
\* every objective passed before
SeesImprovement(k) == objectives[k] < BestBefore(k - 1)

\* C29: a sequential selector over m >= 1 operators never skips an operator
\* permanently: a call that sees no improvement returns the operator after
\* the one returned before (mod m), so any m consecutive calls that see no
\* improvement return every operator exactly once; a call that sees an
\* improvement returns operator 0.
C29_NeverSkips ==
    LET m == Len(operators)
        n == Len(selected)
    IN  /\ m >= 1
        /\ \A k \in 1..n :
            /\ SeesImprovement(k) => selected[k] = 0
            /\ (~SeesImprovement(k) /\ k > 1) =>
                    selected[k] = (selected[k - 1] + 1) % m
        /\ \A k \in 1..n :
            (k + m - 1 <= n /\ \A j \in k..(k + m - 1) : ~SeesImprovement(j)) =>
                /\ {selected[j] : j \in k..(k + m - 1)} = 0..(m - 1)
                /\ \A i, j \in k..(k + m - 1) :
                        selected[i] = selected[j] => i = j

\* C29 witness: on a pool of three operators the three calls after an
\* improvement saw none and returned the operators 1, 2 and 0
C29_Witness ==
    /\ Len(operators) = 3
    /\ objectives = <<5, 7, 5, 8>>
    /\ selected = <<0, 1, 2, 0>>

----------------------------------------------------------------------------
(* Properties of composites over permuted sub-criteria, checked under       *)
(* SpecPermuted                                                             *)

\* C30: the results of a composite terminator do not depend on the order of
\* its sub-criteria: an OrTerminator (resp. AndTerminator) over iteration
\* counters and time criteria and one over any permutation of the same list
\* return the same sequence of booleans, whatever the number of calls.
C30_OrderIndependent == results_permuted = results

----------------------------------------------------------------------------
(* The loop as coded against the loop as documented, checked under          *)
(* SpecSeeded                                                               *)

\* C31: for VNS, LNS and SA the loop as coded, which updates the best
\* solution before and independently of the acceptance, is equivalent to the
\* loop as documented, which updates it only in the acceptance branch: in
\* every iteration in which best_solution is replaced the same candidate is
\* accepted as the new incumbent, and after every iteration the incumbent
\* and the best solution are those of the documented loop run on the same
\* candidates and decisions.
C31_CodedIsDocumented ==
    /\ (pc = "terminate" /\ Len(callbacks) >= 1
            /\ callbacks[1] = "improved_best") =>
        /\ callbacks = <<"improved_best", "accepted">>
        /\ incumbent = candidate[1]
        /\ best_solution = candidate[1]
    /\ pc \in {"terminate", "propose", "done"} =>
        /\ Len(proposed) = Len(decisions)
        /\ documented_optimize(initial, proposed, decisions, Len(decisions))
                = [incumbent |-> incumbent, best_solution |-> best_solution]

\* C31 witness: an SA run replaced the best solution in its first iteration
\* and accepted a worse candidate in its second, so that the incumbent it
\* ends with is not the best solution
C31_Witness ==
    /\ alg = "SA"
    /\ pc = "done"
    /\ decisions = <<TRUE, TRUE>>
    /\ evaluate(proposed[1]) < evaluate(initial)
    /\ evaluate(proposed[2]) > evaluate(proposed[1])
    /\ incumbent = proposed[2]
    /\ best_solution = proposed[1]

----------------------------------------------------------------------------
(* Further properties of optimize, checked under SpecLoop *)

\* C32: a rejected candidate is a normal outcome: when accept_candidate
\* returns false the incumbent is left unchanged, nothing panics, the
\* proposal is not retried within the iteration, and the loop goes on to the
\* termination check and from there to the next iteration.
C32_RejectedIsNormal ==
    [][/\ (calls'.accept = calls.accept + 1 /\ ~Accepted) =>
            /\ incumbent' = incumbent
            /\ best_solution' = best_solution
            /\ ~panicked'
            /\ calls'.propose = calls.propose
            /\ pc' = "terminate"
       /\ (pc = "terminate" /\ callbacks = <<"rejected">>) =>
            /\ calls'.should_terminate = calls.should_terminate + 1
            /\ calls'.propose = calls.propose
            /\ incumbent' = incumbent
            /\ ~panicked'
            /\ pc' = IF results'[Len(results')] THEN "done" ELSE "propose"
       /\ ProposeStep => calls.propose = calls.should_terminate
      ]_vars

\* C32 witness: VNS rejected the candidate of its first iteration, the
\* termination check let the loop go on, and the second proposal was made
\* from the unchanged incumbent
C32_Witness ==
    /\ alg = "VNS"
    /\ calls = [propose |-> 2, accept |-> 1, should_terminate |-> 1]
    /\ pc = "improve"
    /\ results = <<FALSE>>
    /\ incumbent = initial
    /\ proposed[1] # initial

\* C33: under the strict-improvement acceptance of VNS and LNS the best
\* solution and the incumbent are the same solution after every iteration:
\* an iteration either replaces both by the candidate or leaves both, and
\* optimize returns the final incumbent.
C33_BestIsIncumbent ==
    alg \in {"VNS", "LNS"} =>
        /\ pc \in {"propose", "terminate", "done"} => best_solution = incumbent
        /\ pc = "terminate" =>
            \/ /\ callbacks = <<"improved_best", "accepted">>
               /\ incumbent = candidate[1]
            \/ /\ callbacks = <<"rejected">>
               /\ evaluate(candidate[1]) >= evaluate(incumbent)
        /\ pc = "done" => returned = <<incumbent>>

\* C33 witness: an LNS run of two iterations, the first of which replaced
\* the incumbent and the best solution and the second of which replaced
\* neither, has returned its incumbent
C33_Witness ==
    /\ alg = "LNS"
    /\ pc = "done"
    /\ calls.accept = 2
    /\ callbacks = <<"rejected">>
    /\ incumbent = proposed[1]
    /\ incumbent # initial
    /\ returned = <<incumbent>>

----------------------------------------------------------------------------
(* The use SA makes of its generator, checked under SpecSeeded *)

\* C34: in every SA iteration the algorithm's own generator is consumed in a
\* fixed order: first by the shake of propose_candidate, which takes the next
\* draws of the stream, then by exactly one uniform draw of accept_candidate,
\* which is the next of the stream; that draw is taken on every call, also
\* when the candidate strictly improves on the incumbent; no other step
\* draws.
C34_DrawOrder ==
    [][alg = "SA" =>
        /\ (pc = "propose" /\ pc' # "panicked") =>
            /\ rng' = rng + shake_draws(incumbent)
            /\ candidate' = <<shake(incumbent, stream[rng + 1])>>
        /\ pc = "accept" =>
            /\ rng' = rng + 1
            /\ draw' = gen_f32(stream[rng + 1])
        /\ pc \notin {"propose", "accept", "done"} => rng' = rng
      ]_vars

\* C34 witness: SA has accepted a candidate that strictly improves on the
\* incumbent in its first iteration; the shake took the first draw of the
\* stream and accept_candidate the second
C34_Witness ==
    /\ alg = "SA"
    /\ first_run = <<>>
    /\ pc = "terminate"
    /\ calls.accept = 1
    /\ callbacks = <<"improved_best", "accepted">>
    /\ shake_draws(initial) = 1
    /\ rng = 2

----------------------------------------------------------------------------
(* Composites without sub-criteria, checked under SpecLoop *)

\* C35: a composite built from an empty criteria list behaves as the empty
\* OR / AND: the OrTerminator without sub-criteria returns false on every
\* call, so optimize never returns; the AndTerminator without sub-criteria
\* returns true on every call, so optimize returns after its first iteration.
C35_EmptyComposite ==
    /\ TerminatorBuilder_build(Terminator_builder) = OrTerminator(<<>>)
    /\ TerminatorBuilder_build(TerminatorBuilder_all(Terminator_builder))
           = AndTerminator(<<>>)
    /\ terminator = OrTerminator(<<>>) =>
        /\ \A i \in 1..Len(results) : ~results[i]
        /\ pc # "done"
        /\ returned = <<>>
    /\ terminator = AndTerminator(<<>>) =>
        /\ \A i \in 1..Len(results) : results[i]
        /\ Len(results) <= 1
        /\ Len(results) = 1 =>
            /\ pc = "done"
            /\ calls.propose = 1
            /\ returned # <<>>

\* C35 witness: the empty OR has been asked in every iteration the bound
\* allows and the loop is back at its head
C35_Witness ==
    /\ terminator = OrTerminator(<<>>)
    /\ Len(results) = MaxIter
    /\ calls.propose = MaxIter
    /\ pc = "propose"

----------------------------------------------------------------------------
(* Operators of weight 0, checked under SpecAdapt *)

\* C36: for every draw of [0, 1), select never returns an operator whose
\* weight is 0 while some other operator has a positive weight.
C36_NoZeroWeightSelected ==
    (last_call.name = "select" /\ ~panicked) =>
        ~ /\ weights[index_last_selection[1] + 1] = 0
          /\ \E j \in 1..Len(weights) : weights[j] > 0

----------------------------------------------------------------------------
(* optimize run to the end of an iteration budget, with the counter of the *)
(* IterationTerminator at the width of a usize.  The loop is run without a *)
(* bound on its iterations, so the histories are left alone.               *)

\* the width of a usize, scaled down from 64 bits
UsizeBits == 2

\* usize::MAX
usize_MAX == 2 ^ UsizeBits - 1

\* the criteria of a run limited by an iteration budget alone:
\* IterationTerminator::new(n), and the budget 0 from the builder
BudgetTerminators ==
    Primitives \cup
        {TerminatorBuilder_build(
             TerminatorBuilder_iterations(Terminator_builder, 0))}

\* the budget of such a criterion
BudgetOf(t) == IF t.kind = "Iteration" THEN t.n ELSE t.terminators[1].n

\* the counter of such a criterion
CounterOf(t) ==
    IF t.kind = "Iteration" THEN t.iteration ELSE t.terminators[1].iteration

\* self.iteration.borrow_mut().add_assign(1) on a counter at usize::MAX: the
\* addition overflows
Overflows(t) == CounterOf(t) = usize_MAX

\* the counter after an overflow that wraps
Wrapped(t) ==
    IF t.kind = "Iteration" THEN [t EXCEPT !.iteration = 0]
    ELSE [t EXCEPT !.terminators[1].iteration = 0]

BudgetInit ==
    /\ alg = "LNS"
    /\ initial \in Solutions
    /\ terminator \in BudgetTerminators
    /\ operators \in TestPools(alg)
    /\ LoopHead
    /\ AdaptIdle
    /\ OpIdle
    /\ BuildIdle
    /\ RngIdle

\* let candidate = self.propose_candidate(incumbent.clone());
BudgetPropose ==
    /\ pc = "propose"
    /\ \E g \in Gens :
        \E o \in propose_candidate(alg, operators,
                    [operator_index |-> operator_index,
                     objective_best |-> objective_best], incumbent, g) :
            /\ candidate' = o.candidate
            /\ operator_index' = o.sel.operator_index
            /\ objective_best' = o.sel.objective_best
            /\ destroyed' = o.destroyed
            /\ panicked' = (o.candidate = <<>>)
            /\ pc' = IF o.candidate = <<>> THEN "panicked" ELSE "improve"
    /\ UNCHANGED <<alg, initial, incumbent, best_solution, returned, coolings,
                   draw, proposed, select_log, calls, callbacks>>
    /\ UNCHANGED <<termVars, operators, objectives, selected, opVars,
                   buildVars, rngVars>>
    /\ UNCHANGED <<ctor, weights, decay, rewards, index_last_selection,
                   selects, feedbacks, last_call>>

\* if candidate.evaluate() < best_solution.evaluate() { .. }
BudgetUpdateBest ==
    /\ pc = "improve"
    /\ best_solution' = IF ImprovesBest(candidate[1], best_solution)
                        THEN candidate[1] ELSE best_solution
    /\ pc' = "accept"
    /\ UNCHANGED <<alg, initial, incumbent, candidate, returned, coolings,
                   draw, proposed, select_log, destroyed, calls, callbacks>>
    /\ UNCHANGED <<termVars, seqVars, adaptVars, opVars, buildVars, rngVars>>

\* if self.accept_candidate(&candidate, &incumbent) { .. } else { .. }
BudgetAccept ==
    /\ pc = "accept"
    /\ \E u \in Draws(alg) :
        \E accepted \in accept_candidate(alg, coolings, candidate[1],
                                         incumbent, u) :
            incumbent' = IF accepted THEN candidate[1] ELSE incumbent
    /\ pc' = "terminate"
    /\ UNCHANGED <<alg, initial, best_solution, candidate, returned, coolings,
                   draw, proposed, select_log, destroyed, calls, callbacks>>
    /\ UNCHANGED <<termVars, seqVars, adaptVars, opVars, buildVars, rngVars>>

\* if self.should_terminate(&incumbent) { break; } .. best_solution, while
\* the counter can be incremented
BudgetShouldTerminate ==
    /\ pc = "terminate"
    /\ ~Overflows(terminator)
    /\ LET r == TerminationCriteria_terminate(terminator)
       IN  /\ terminator' = r.state
           /\ pc' = IF r.result THEN "done" ELSE "propose"
           /\ returned' = IF r.result
                          THEN <<optimize_result(best_solution, incumbent)>>
                          ELSE returned
    /\ UNCHANGED <<alg, initial, incumbent, best_solution, candidate, coolings,
                   draw, proposed, select_log, destroyed, calls, callbacks>>
    /\ UNCHANGED <<results, clockVars, seqVars, adaptRest, weights, opVars,
                   buildVars, rngVars>>

\* self.should_terminate(&incumbent) with the counter at usize::MAX, in a
\* build with overflow checks (the dev profile): add_assign panics
BudgetOverflowPanics ==
    /\ pc = "terminate"
    /\ Overflows(terminator)
    /\ panicked' = TRUE
    /\ pc' = "panicked"
    /\ UNCHANGED <<alg, initial, incumbent, best_solution, candidate, returned,
                   coolings, draw, proposed, select_log, destroyed, calls,
                   callbacks>>
    /\ UNCHANGED <<termVars, seqVars, opVars, buildVars, rngVars>>
    /\ UNCHANGED <<ctor, weights, decay, rewards, index_last_selection,
                   selects, feedbacks, last_call>>

\* self.should_terminate(&incumbent) with the counter at usize::MAX, in a
\* build without overflow checks (the release profile): the counter wraps
\* to 0, which is then compared with n
BudgetOverflowWraps ==
    /\ pc = "terminate"
    /\ Overflows(terminator)
    /\ terminator' = Wrapped(terminator)
    /\ pc' = IF BudgetOf(terminator) = 0 THEN "done" ELSE "propose"
    /\ returned' = IF BudgetOf(terminator) = 0
                   THEN <<optimize_result(best_solution, incumbent)>>
                   ELSE returned
    /\ UNCHANGED <<alg, initial, incumbent, best_solution, candidate, coolings,
                   draw, proposed, select_log, destroyed, calls, callbacks>>
    /\ UNCHANGED <<results, clockVars, seqVars, adaptRest, weights, opVars,
                   buildVars, rngVars>>

BudgetNext ==
    \/ BudgetPropose
    \/ BudgetUpdateBest
    \/ BudgetAccept
    \/ BudgetShouldTerminate
    \/ BudgetOverflowPanics
    \/ BudgetOverflowWraps

\* optimize is sequential code: while it runs, its next statement is executed
SpecBudget == BudgetInit /\ [][BudgetNext]_vars /\ WF_vars(BudgetNext)

\* C37: with an iteration budget of 0 as the only criterion
\* (IterationTerminator::new(0) or TerminatorBuilder::iterations(0)),
\* optimize still terminates: it returns after a bounded number of loop
\* iterations.
C37_BudgetZeroReturns ==
    (BudgetOf(terminator) = 0) ~> (pc = "done")

----------------------------------------------------------------------------
(* The older variable neighborhood search: vns.rs, Heuristic::optimize     *)
(* with the index-based OperatorSelector                                   *)

\* SequentialSelector::initial_operator
initial_operator == 0

\* faulty variant: the cursor is not reset on an improvement
select_operator_Keep(k, did_improve) ==
    IF did_improve THEN k ELSE k + 1

\* SequentialSelector::select_operator on the cursor k: sub_assign(k) on an
\* improvement, add_assign(1) otherwise; the new cursor is returned
select_operator(k, did_improve) ==
    IF did_improve THEN k - k ELSE k + 1

\* StochasticOperator::shake for dyn Operator: the solution itself
legacy_shake(solution) == solution

\* the radii of the operators of a pool
LegacyRadii == {1, 5}

\* the operator pools of the older routine: NeighborsUpUntilN operators
LegacyPools == SeqUpTo(LegacyRadii, MaxOps)

LegacyInit ==
    /\ alg = "VNS"
    /\ initial \in Solutions
    /\ terminator \in LoopTerminators
    /\ operators \in LegacyPools
    /\ LoopHead
    /\ operator_index = initial_operator
    /\ AdaptIdle
    /\ OpIdle
    /\ BuildIdle
    /\ RngIdle

\* let ref operator = self.operators[operator_index]; shake;
\* find_best_neighbor; if best_neighbor.evaluate() < incumbent.evaluate()
\* { incumbent = best_neighbor; did_improve = true; }.  The indexing panics
\* on an empty pool, and find_best_neighbor on an empty neighborhood
LegacySearch ==
    /\ pc = "propose"
    /\ LET best_neighbor ==
               IF operator_index >= Len(operators) THEN <<>>
               ELSE find_best_neighbor(
                        construct_neighborhood(operators[operator_index + 1],
                                               legacy_shake(incumbent)))
       IN  IF best_neighbor = <<>>
           THEN /\ panicked' = TRUE
                /\ pc' = "panicked"
                /\ UNCHANGED <<candidate, incumbent, decisions, proposed,
                               objectives, calls>>
           ELSE LET did_improve ==
                        evaluate(best_neighbor[1]) < evaluate(incumbent)
                    inc == IF did_improve THEN best_neighbor[1] ELSE incumbent
                IN  /\ candidate' = best_neighbor
                    /\ incumbent' = inc
                    /\ decisions' = Append(decisions, did_improve)
                    /\ proposed' = Append(proposed, best_neighbor[1])
                    /\ objectives' = Append(objectives, evaluate(inc))
                    /\ calls' = [calls EXCEPT !.propose = @ + 1]
                    /\ pc' = "select"
                    /\ UNCHANGED panicked
    /\ UNCHANGED <<alg, initial, best_solution, returned, coolings, draw,
                   select_log, destroyed, callbacks>>
    /\ UNCHANGED <<termVars, operators, operator_index, objective_best,
                   selected, opVars, buildVars>>
    /\ UNCHANGED <<ctor, weights, decay, rewards, index_last_selection,
                   selects, feedbacks, last_call>>
    /\ UNCHANGED <<stream, rng, rng_selector, first_run>>

\* operator_index = selector.select_operator(did_improve);
\* if operator_index >= self.operators.len() { break; } .. incumbent
LegacySelect ==
    /\ pc = "select"
    /\ LET k == select_operator(operator_index, decisions[Len(decisions)])
       IN  /\ operator_index' = k
           /\ selected' = Append(selected, k)
           /\ pc' = IF k >= Len(operators) THEN "done" ELSE "terminate"
           /\ returned' = IF k >= Len(operators) THEN <<incumbent>>
                          ELSE returned
    /\ UNCHANGED <<alg, initial, incumbent, best_solution, candidate, coolings,
                   draw, proposed, select_log, destroyed, calls, callbacks>>
    /\ UNCHANGED <<termVars, operators, objective_best, objectives, adaptVars,
                   opVars, buildVars, rngVars>>

\* if terminator.terminate(&incumbent) { break; } .. incumbent
LegacyTerminate ==
    /\ pc = "terminate"
    /\ LET r == TerminationCriteria_terminate(terminator)
       IN  /\ terminator' = r.state
           /\ results' = Append(results, r.result)
           /\ pc' = IF r.result THEN "done" ELSE "propose"
           /\ returned' = IF r.result THEN <<incumbent>> ELSE returned
    /\ calls' = [calls EXCEPT !.should_terminate = @ + 1]
    /\ UNCHANGED <<alg, initial, incumbent, best_solution, candidate, coolings,
                   draw, proposed, select_log, destroyed, callbacks>>
    /\ UNCHANGED <<clockVars, seqVars, adaptVars, opVars, buildVars, rngVars>>

LegacyNext == LegacySearch \/ LegacySelect \/ LegacyTerminate

SpecLegacy == LegacyInit /\ [][LegacyNext]_vars

\* the cursor before the i-th call of select_operator
CursorBefore(i) == IF i = 1 THEN initial_operator ELSE selected[i - 1]

\* the rounds, among those whose selection is made, in which the cursor
\* stayed in range
InRange == {i \in 1..Len(selected) : selected[i] < Len(operators)}

====
